---- MODULE Spec2Model ----
(***************************************************************************)
(* State-machine model of the dynamic multi-LoRA slot subsystem of         *)
(* js/modelManager.js: the widget list of one ModelManagerMultiLoRALoader  *)
(* node, its showStrengths property, the slot widgets' pointer handlers,   *)
(* the structural operations, mode migration and configure (restore).      *)
(*                                                                         *)
(* Numbers are fixed point, in thousandths: 1.0 is 1000, 0.05 is 50.       *)
(* A JavaScript value that may be a number, NaN, null or undefined is the  *)
(* tagged record [t, n].                                                   *)
(***************************************************************************)
EXTENDS Integers, Sequences, FiniteSets, TLC

VARIABLES
    widgets,        \* node.widgets, in list order
    showStrengths,  \* node.properties.showStrengths
    upgradeTimer,   \* TRUE while the 16 ms upgrade pass of onNodeCreated is pending
    connected,      \* modelManagerState.connected
    loraCache,      \* modelCache.loras
    refreshPc,      \* where the catalog refresh in flight stands: idle, post, fetch
    clock,          \* Date.now(), in ms
    edits,          \* how many pointer or <input> events changed a strength so far
    last,           \* history: the operation that produced this state, and
                    \* the info it was given when it is a configure
    menu,           \* the context menu getExtraMenuOptions built, while it
                    \* is open: what its callbacks captured
    removed,        \* the node has left the graph (node.onRemoved has run)
    height,         \* node.size[1]
    layout          \* the last call of loraZones: its arguments and its result

vars == <<widgets, showStrengths, upgradeTimer, connected, loraCache, refreshPc,
          clock, edits, last, menu, removed, height, layout>>

----------------------------------------------------------------------------
(* Bounds of the model *)

MaxSlots == 2       \* slot widgets a node may hold
MaxSpare == 2       \* spare rows a resize by the user may leave
MaxWidth == 320     \* widest node whose zones are laid out
MaxSaved == 2       \* entries of info.widgets_values given to configure
MaxTicks == 2       \* advances of the clock
MaxEdits == 2       \* pointer and <input> events that change a strength

----------------------------------------------------------------------------
(* JavaScript values *)

Num(n)    == [t |-> "num", n |-> n]
NaN       == [t |-> "nan", n |-> 0]
Null      == [t |-> "null", n |-> 0]
Undefined == [t |-> "undefined", n |-> 0]

IsNum(x)   == x.t = "num"
\* x == null, and the left side of x ?? y
Nullish(x) == x.t \in {"null", "undefined"}
Coalesce(x, y) == IF Nullish(x) THEN y ELSE x
\* typeof x === "number" (NaN is a number)
TypeofNumber(x) == x.t \in {"num", "nan"}
\* numeric coercion of an arithmetic operand
ToNumber(x) == CASE x.t = "num" -> x
                 [] x.t = "null" -> Num(0)
                 [] OTHER -> NaN

\* x + d for a numeric literal d
Plus(x, d) == IF IsNum(ToNumber(x)) THEN Num(ToNumber(x).n + d) ELSE NaN
\* Math.max(lo, x) and Math.min(hi, x) for a numeric literal bound
MathMax(lo, x) == IF ~IsNum(ToNumber(x)) THEN NaN
                  ELSE IF ToNumber(x).n < lo THEN Num(lo) ELSE ToNumber(x)
MathMin(hi, x) == IF ~IsNum(ToNumber(x)) THEN NaN
                  ELSE IF ToNumber(x).n > hi THEN Num(hi) ELSE ToNumber(x)
\* Math.round(x * 100) / 100: to the nearest hundredth, halves toward +infinity
Round2(x) == IF ~IsNum(ToNumber(x)) THEN NaN
             ELSE Num(((ToNumber(x).n + 5) \div 10) * 10)

\* the three values of a slot's `on` field
OnTrue  == "true"
OnFalse == "false"
OnUndef == "undefined"
\* !x
Not(on) == IF on = OnTrue THEN OnFalse ELSE OnTrue
\* x !== false
NotFalse(on) == on # OnFalse
BoolOf(b) == IF b THEN OnTrue ELSE OnFalse

\* the "None" sentinel and an undefined string field
None     == "None"
NoString == "<undefined>"

----------------------------------------------------------------------------
(* Program constants, in thousandths (strength) or pixels (layout) *)

MinStrength   == -20000   \* Math.max(-20, ...)
MaxStrength   == 20000    \* Math.min(20, ...)
ArrowStep     == 50       \* strength -/+ 0.05
DragScale     == 10       \* dx * 0.01
DragThreshold == 2        \* Math.abs(dx) > 2
DefaultStrength == 1000   \* strength: 1.0

MARGIN         == 15
SWITCH_W       == 22
SWITCH_PAD     == 4
ARROW_W        == 14
STRENGTH_NUM_W == 36
NameGap        == 8       \* nameX = switchX + SWITCH_W + 8
NameEndGap     == 4       \* nameEnd = arrowLeft - 4
ColumnGap      == 2       \* col1End = col2ArrowLeft - 2

NODE_WIDGET_HEIGHT == 20  \* LiteGraph.NODE_WIDGET_HEIGHT || 20

\* node.size[0], the node's pixel width (host state)
NodeWidth == 300

----------------------------------------------------------------------------
(* Slot values *)

\* an object value { on, lora, strength, strengthTwo }
SlotValue(on, lora, strength, strengthTwo) ==
    [typ |-> "object", chars |-> "", on |-> on, lora |-> lora,
     strength |-> strength, strengthTwo |-> strengthTwo]

\* a bare string value (the API JSON load path): every field reads undefined
StringValue(s) ==
    [typ |-> "string", chars |-> s, on |-> OnUndef, lora |-> NoString,
     strength |-> Undefined, strengthTwo |-> Undefined]

\* { ...v }: an object; a string spreads into its characters (kept in chars)
Spread(v) == [v EXCEPT !.typ = "object"]

\* the default of createLoraWidget when no initialValue is given, and the
\* literal setupLoraNode and configure pass
DefaultSlotValue == SlotValue(OnTrue, None, Num(DefaultStrength), Null)

\* w._dragState = null
NoDrag == [armed |-> FALSE, key |-> "", startX |-> 0, startVal |-> Undefined,
           dragged |-> FALSE]

\* no inline <input> of showStrengthInput is open for the widget
NoInput == [open |-> FALSE, key |-> "", prefill |-> Undefined]

----------------------------------------------------------------------------
(* Widgets *)

\* node.addWidget("combo", `lora_${index}`, ...) as completed by createLoraWidget
createLoraWidget(index, initialValue) ==
    [kind |-> "lora_slot", name |-> "lora_", idx |-> index,
     value |-> initialValue, drag |-> NoDrag,
     lastStrengthClick |-> 0, lastStrengthClick2 |-> 0, input |-> NoInput]

\* a widget that is no slot: a name and a kind, nothing else the model reads
Plain(kind, name) == [kind |-> kind, name |-> name]

\* the base_model combo, created with the value "All"
addBaseModelWidget     == [kind |-> "base_model", name |-> "base_model", value |-> "All"]
createToggleAllWidget  == Plain("toggle_all", "toggle_all")
createAddLoraButton    == Plain("add_lora", "add_lora")

\* authWidget: created as "mm_auth", then renamed at once by
\* authWidget.onModelManagerStateChange()
AuthName(conn) == IF conn THEN "Model Manager: Connected"
                  ELSE "Connect to Model Manager"
authWidget(conn) == Plain("auth", AuthName(conn))
refreshWidget    == Plain("refresh", "mm_refresh")

\* w._isLoraSlot, w._isToggleAll, w._isAddLora
IsLoraSlot(w)  == w.kind = "lora_slot"
IsToggleAll(w) == w.kind = "toggle_all"
IsAddLora(w)   == w.kind = "add_lora"

\* positions in ws of the widgets getLoraWidgets returns, in order
RECURSIVE LoraPositionsFrom(_, _)
LoraPositionsFrom(ws, i) ==
    IF i > Len(ws) THEN <<>>
    ELSE IF ws[i].name = "lora_" /\ IsLoraSlot(ws[i])
         THEN <<i>> \o LoraPositionsFrom(ws, i + 1)
         ELSE LoraPositionsFrom(ws, i + 1)
LoraPositions(ws) == LoraPositionsFrom(ws, 1)

\* getLoraWidgets(node)
getLoraWidgets(ws) ==
    LET pos == LoraPositions(ws)
    IN  [k \in 1..Len(pos) |-> ws[pos[k]]]

\* widgets.indexOf(w) for the widget of a given kind: its position, 0 if absent
IndexOfKind(ws, kind) ==
    IF \E i \in 1..Len(ws) : ws[i].kind = kind
    THEN CHOOSE i \in 1..Len(ws) :
             ws[i].kind = kind /\ \A j \in 1..(i - 1) : ws[j].kind # kind
    ELSE 0

----------------------------------------------------------------------------
(* Catalog *)

\* two catalog entries as the backend serves them
ModelFoo == [id |-> "123", versionId |-> "", name |-> "foo", baseModel |-> "SDXL"]
ModelBar == [id |-> "456", versionId |-> "7", name |-> "bar", baseModel |-> "SD15"]

modelComboValue(m) ==
    IF m.versionId # "" THEN m.id \o "@" \o m.versionId \o ":" \o m.name
    ELSE m.id \o ":" \o m.name

\* modelCache.loras is absent
NoCache == [present |-> FALSE, models |-> <<>>]

\* getBaseModelOptions("loras"): "All", then the catalog's base models (as
\* the set a user picks from; the sort order is not modelled)
getBaseModelOptions(cache) ==
    IF ~cache.present THEN {"All"}
    ELSE {"All"} \cup {cache.models[i].baseModel : i \in 1..Len(cache.models)}

\* node.widgets.find(w => w.name === "base_model")?.value, "" when there is
\* no such widget
BaseModelValue(ws) ==
    IF \E i \in 1..Len(ws) : ws[i].name = "base_model"
    THEN ws[CHOOSE i \in 1..Len(ws) : ws[i].name = "base_model"
                        /\ \A j \in 1..(i - 1) : ws[j].name # "base_model"].value
    ELSE ""

\* getFilteredLoraModels ignoring the base_model widget
getFilteredLoraModelsUnfiltered(ws, cache) ==
    IF ~cache.present THEN <<>> ELSE cache.models

\* getFilteredLoraModels(node)
getFilteredLoraModels(ws, cache) ==
    IF ~cache.present THEN <<>>
    ELSE LET baseModel == BaseModelValue(ws)
         IN  IF baseModel = "" \/ baseModel = "All" THEN cache.models
             ELSE SelectSeq(cache.models, LAMBDA m : m.baseModel = baseModel)

\* the values buildGroupedLoraMenu offers: "None", then one per model
MenuValues(models) == {None} \cup {modelComboValue(models[i]) : i \in 1..Len(models)}

----------------------------------------------------------------------------
(* Mode *)

Single == "Single"
Dual   == "Model & Clip"

isDualMode(mode) == mode = Dual

----------------------------------------------------------------------------
(* Slot list operations on a widget list ws *)

\* ws with the element at position i removed: widgets.splice(i, 1)
RemoveAt(ws, i) == SubSeq(ws, 1, i - 1) \o SubSeq(ws, i + 1, Len(ws))
\* ws with w inserted so that it lands at position i: widgets.splice(i, 0, w)
InsertAt(ws, i, w) == SubSeq(ws, 1, i - 1) \o <<w>> \o SubSeq(ws, i, Len(ws))
\* [ws[a], ws[b]] = [ws[b], ws[a]]
Swap(ws, a, b) == [ws EXCEPT ![a] = ws[b], ![b] = ws[a]]

\* renumberLoraWidgets left out: the names stay as they are
renumberSkipped(ws) == ws

\* renumberLoraWidgets(node)
renumberLoraWidgets(ws) ==
    LET pos == LoraPositions(ws)
    IN  [i \in 1..Len(ws) |->
            IF \E k \in 1..Len(pos) : pos[k] = i
            THEN [ws[i] EXCEPT !.name = "lora_",
                               !.idx = CHOOSE k \in 1..Len(pos) : pos[k] = i]
            ELSE ws[i]]

\* addLoraSlot leaving the new widget where node.addWidget put it: last
addLoraSlotAppends(ws, mode, loraName) ==
    Append(ws, createLoraWidget(Len(LoraPositions(ws)) + 1,
                   SlotValue(BoolOf(loraName # None), loraName, Num(DefaultStrength),
                             IF isDualMode(mode) THEN Num(DefaultStrength) ELSE Null)))

\* addLoraSlot(node, btn, loraName); btn is the node's current Add LoRA button
addLoraSlot(ws, mode, loraName) ==
    LET newIndex == Len(LoraPositions(ws)) + 1
        newW == createLoraWidget(newIndex,
                    SlotValue(BoolOf(loraName # None), loraName,
                              Num(DefaultStrength),
                              IF isDualMode(mode) THEN Num(DefaultStrength) ELSE Null))
        pushed  == Append(ws, newW)
        newWIdx == Len(pushed)
        btnIdx  == IndexOfKind(ws, "add_lora")
    IN  IF newWIdx > btnIdx
        THEN IF btnIdx = 0
             \* indexOf gave -1: splice(-1, 0, w) inserts before the last element
             THEN InsertAt(ws, Len(ws), newW)
             ELSE InsertAt(ws, btnIdx, newW)
        ELSE pushed

\* the "Remove LoRA" callback for the slot at position slotIdx of loraW
\* "Remove LoRA" splicing at the slot's index among the slots instead of
\* its index in node.widgets
RemoveLoraAtSlotIndex(ws, slotIdx) ==
    renumberLoraWidgets(RemoveAt(ws, slotIdx))

RemoveLora(ws, slotIdx) ==
    renumberLoraWidgets(RemoveAt(ws, LoraPositions(ws)[slotIdx]))

\* the "Move LoRA Up" callback
MoveLoraUp(ws, slotIdx) ==
    LET pos == LoraPositions(ws)
    IN  renumberLoraWidgets(Swap(ws, pos[slotIdx - 1], pos[slotIdx]))

\* the "Move LoRA Down" callback
MoveLoraDown(ws, slotIdx) ==
    LET pos == LoraPositions(ws)
    IN  renumberLoraWidgets(Swap(ws, pos[slotIdx], pos[slotIdx + 1]))

\* the widget list with the value of the slot at list position i replaced
SetValue(ws, i, v) == [ws EXCEPT ![i].value = v]

\* The callbacks of a menu that stayed open, run with what they captured:
\* m.slotIdx, the slot under the pointer when the menu was built; m.isOn, its
\* flag then; m.live, whether loraW's widgets are still in node.widgets. No
\* operation of the node moves a slot widget while a menu is open, so a live
\* loraW[k] is the k-th slot of ws, and indexOf gives -1 for all otherwise.

\* "Remove LoRA" removing whichever slot now stands at slotIdx
RemoveLoraCallbackByIndex(ws, m) ==
    IF m.slotIdx <= Len(LoraPositions(ws)) THEN RemoveLora(ws, m.slotIdx)
    ELSE renumberLoraWidgets(ws)

\* "Remove LoRA": idx = indexOf(loraW[slotIdx]); if (idx >= 0) splice; renumber
RemoveLoraCallback(ws, m) ==
    IF m.live THEN RemoveLora(ws, m.slotIdx) ELSE renumberLoraWidgets(ws)

\* "Move LoRA Up" with the exchange written as two assignments and no
\* temporary: both places end up holding the slot that moved
MoveUpCallbackCopies(ws, m) ==
    IF m.live
    THEN LET pos == LoraPositions(ws)
         IN  renumberLoraWidgets([ws EXCEPT ![pos[m.slotIdx - 1]] = ws[pos[m.slotIdx]]])
    ELSE renumberLoraWidgets(ws)

\* "Move LoRA Up": with both indexOf at -1 the exchange writes widgets[-1],
\* which is no element of the list
MoveUpCallback(ws, m) ==
    IF m.live THEN MoveLoraUp(ws, m.slotIdx) ELSE renumberLoraWidgets(ws)

\* "Move LoRA Down"
MoveDownCallback(ws, m) ==
    IF m.live THEN MoveLoraDown(ws, m.slotIdx) ELSE renumberLoraWidgets(ws)

\* "Disable LoRA" / "Enable LoRA": value = { ...value, on: !isOn }, written
\* to a widget that is no longer in the list when the closure is stale
ToggleCallback(ws, m) ==
    IF m.live
    THEN LET pos == LoraPositions(ws)[m.slotIdx]
         IN  SetValue(ws, pos, [Spread(ws[pos].value) EXCEPT !.on = BoolOf(~m.isOn)])
    ELSE ws

\* the toggle-all click negating every slot's own flag
ToggleAllEach(ws) ==
    [i \in 1..Len(ws) |->
        IF ws[i].name = "lora_" /\ IsLoraSlot(ws[i])
        THEN [ws[i] EXCEPT !.value = [Spread(@) EXCEPT !.on = Not(ws[i].value.on)]]
        ELSE ws[i]]

\* the toggle-all click: every slot's on becomes !allOn
ToggleAll(ws) ==
    LET loraW == getLoraWidgets(ws)
        allOn == Len(loraW) > 0 /\ \A k \in 1..Len(loraW) : NotFalse(loraW[k].value.on)
    IN  [i \in 1..Len(ws) |->
            IF ws[i].name = "lora_" /\ IsLoraSlot(ws[i])
            THEN [ws[i] EXCEPT !.value = [Spread(@) EXCEPT !.on = BoolOf(~allOn)]]
            ELSE ws[i]]

\* drawSwitch(ctx, x, y, on, partial): the look the switch is given
drawSwitch(on, partial) == IF on THEN "on" ELSE IF partial THEN "partial" ELSE "off"

\* the Toggle All draw with allOn computed by every() alone: an empty list
\* counts as all on
toggleAllDrawNoLength(ws) ==
    LET loraW  == getLoraWidgets(ws)
        allOn  == \A k \in 1..Len(loraW) : NotFalse(loraW[k].value.on)
        someOn == \E k \in 1..Len(loraW) : NotFalse(loraW[k].value.on)
    IN  drawSwitch(allOn, ~allOn /\ someOn)

\* createToggleAllWidget's draw: the switch it paints
toggleAllDraw(ws) ==
    LET loraW  == getLoraWidgets(ws)
        allOn  == Len(loraW) > 0 /\ \A k \in 1..Len(loraW) : NotFalse(loraW[k].value.on)
        someOn == \E k \in 1..Len(loraW) : NotFalse(loraW[k].value.on)
    IN  drawSwitch(allOn, ~allOn /\ someOn)

\* onPropertyChanged writing { strengthTwo: ... } without the spread of the
\* old value
onPropertyChangedNoSpread(ws, value) ==
    [i \in 1..Len(ws) |->
        IF ws[i].name = "lora_" /\ IsLoraSlot(ws[i])
        THEN IF value = Dual
             THEN [ws[i] EXCEPT !.value =
                      SlotValue(OnUndef, NoString, Undefined,
                                Coalesce(ws[i].value.strengthTwo, ws[i].value.strength))]
             ELSE [ws[i] EXCEPT !.value = SlotValue(OnUndef, NoString, Undefined, Null)]
        ELSE ws[i]]

\* onPropertyChanged testing !strengthTwo instead of strengthTwo == null:
\* a zero counts as absent
onPropertyChangedFalsy(ws, value) ==
    [i \in 1..Len(ws) |->
        IF ws[i].name = "lora_" /\ IsLoraSlot(ws[i])
        THEN IF value = Dual
             THEN IF Nullish(ws[i].value.strengthTwo) \/ ws[i].value.strengthTwo = Num(0)
                  THEN [ws[i] EXCEPT !.value =
                            [Spread(@) EXCEPT !.strengthTwo = ws[i].value.strength]]
                  ELSE ws[i]
             ELSE [ws[i] EXCEPT !.value = [Spread(@) EXCEPT !.strengthTwo = Null]]
        ELSE ws[i]]

\* onPropertyChanged without its else branch: nothing is cleared
onPropertyChangedNoClear(ws, value) ==
    [i \in 1..Len(ws) |->
        IF ws[i].name = "lora_" /\ IsLoraSlot(ws[i]) /\ value = Dual
           /\ Nullish(ws[i].value.strengthTwo)
        THEN [ws[i] EXCEPT !.value =
                  [Spread(@) EXCEPT !.strengthTwo = ws[i].value.strength]]
        ELSE ws[i]]

\* node.onPropertyChanged("showStrengths", value): the rewrite of the slots
onPropertyChanged(ws, value) ==
    [i \in 1..Len(ws) |->
        IF ws[i].name = "lora_" /\ IsLoraSlot(ws[i])
        THEN IF value = Dual
             THEN IF Nullish(ws[i].value.strengthTwo)
                  THEN [ws[i] EXCEPT !.value =
                            [Spread(@) EXCEPT !.strengthTwo = ws[i].value.strength]]
                  ELSE ws[i]
             ELSE [ws[i] EXCEPT !.value = [Spread(@) EXCEPT !.strengthTwo = Null]]
        ELSE ws[i]]

\* serializeValue deleting strengthTwo whatever the mode
serializeAlwaysStrips(v, mode) == [Spread(v) EXCEPT !.strengthTwo = Undefined]

\* w.serializeValue()
serializeValue(v, mode) ==
    IF ~isDualMode(mode) THEN [Spread(v) EXCEPT !.strengthTwo = Undefined]
    ELSE Spread(v)

----------------------------------------------------------------------------
(* configure (restore) *)

\* v && typeof v === "object" && "lora" in v
IsLoraRecord(v) == v.typ = "object" /\ v.lora # NoString

\* the slot value configure builds from one saved record sv
RestoredValue(sv) ==
    SlotValue(BoolOf(NotFalse(sv.on)),
              IF sv.lora = "" THEN None ELSE sv.lora,
              IF TypeofNumber(sv.strength) THEN sv.strength ELSE Num(DefaultStrength),
              Coalesce(sv.strengthTwo, Null))

\* configure without its else branch: no slot when nothing was saved
RestoredSlotsNoFallback(loraSlotValues) ==
    [i \in 1..Len(loraSlotValues) |->
        createLoraWidget(i, RestoredValue(loraSlotValues[i]))]

\* the slot widgets configure creates from loraSlotValues
RestoredSlots(loraSlotValues) ==
    IF Len(loraSlotValues) > 0
    THEN [i \in 1..Len(loraSlotValues) |->
             createLoraWidget(i, RestoredValue(loraSlotValues[i]))]
    ELSE <<createLoraWidget(1, DefaultSlotValue)>>

\* the widgets configure takes out of the list to re-append at the end
IsStashed(w) ==
    /\ ~(IsLoraSlot(w) \/ IsToggleAll(w) \/ IsAddLora(w))
    /\ w.name \in {"mm_auth", "mm_refresh"}
\* the widgets configure leaves in place
IsKept(w) ==
    /\ ~(IsLoraSlot(w) \/ IsToggleAll(w) \/ IsAddLora(w))
    /\ w.name \notin {"mm_auth", "mm_refresh"}

\* node.configure(info): the widget list it leaves
configureWidgets(ws, info) ==
    LET trailingWidgets == SelectSeq(ws, IsStashed)
        kept            == SelectSeq(ws, IsKept)
        loraSlotValues  == SelectSeq(info.widgets_values, IsLoraRecord)
    IN  kept \o <<createToggleAllWidget>> \o RestoredSlots(loraSlotValues)
             \o <<createAddLoraButton>> \o trailingWidgets

\* node.configure(info): the showStrengths property it leaves;
\* info.properties.showStrengths is "" when info carries none
configureMode(mode, info) ==
    IF info.showStrengths # "" THEN info.showStrengths ELSE mode

\* the payload a save produces: each slot's serializeValue in list order
\* (every other widget of the node has serialize = false) and the property
SavedInfo(ws, mode) ==
    [showStrengths |-> mode,
     widgets_values |-> [k \in 1..Len(LoraPositions(ws)) |->
                            serializeValue(getLoraWidgets(ws)[k].value, mode)]]

----------------------------------------------------------------------------
(* The upgrade pass of onNodeCreated (setTimeout, 16 ms) *)

\* the upgrade enabling every slot, the "None" ones too
UpgradedValueAlwaysOn(name, mode) ==
    SlotValue(OnTrue, name, Num(DefaultStrength),
              IF isDualMode(mode) THEN Num(DefaultStrength) ELSE Null)

UpgradedValue(name, mode) ==
    SlotValue(BoolOf(name # None), name, Num(DefaultStrength),
              IF isDualMode(mode) THEN Num(DefaultStrength) ELSE Null)

upgradePass(ws, mode) ==
    [i \in 1..Len(ws) |->
        IF IsLoraSlot(ws[i]) /\ ws[i].value.typ = "string"
        THEN [ws[i] EXCEPT !.value = UpgradedValue(ws[i].value.chars, mode)]
        ELSE ws[i]]

----------------------------------------------------------------------------
(* Node construction *)

\* setupLoraNode(node) followed by the auth and refresh buttons of onNodeCreated
NewNodeWidgets(conn) ==
    << addBaseModelWidget, createToggleAllWidget,
       createLoraWidget(1, DefaultSlotValue), createAddLoraButton,
       authWidget(conn), refreshWidget >>

----------------------------------------------------------------------------
(* Layout *)

Zone(x, w) == [x |-> x, w |-> w]
NoZone == [x |-> 0, w |-> 0]

\* loraZones(width, dual); has2 tells whether the second column's zones exist
loraZones(width, dual) ==
    LET switchX == MARGIN + SWITCH_PAD
        nameX   == switchX + SWITCH_W + NameGap
    IN  IF dual
        THEN LET col2End        == width - MARGIN
                 col2ArrowRight == col2End - ARROW_W
                 col2Num        == col2ArrowRight - STRENGTH_NUM_W
                 col2ArrowLeft  == col2Num - ARROW_W
                 col1End        == col2ArrowLeft - ColumnGap
                 col1ArrowRight == col1End - ARROW_W
                 col1Num        == col1ArrowRight - STRENGTH_NUM_W
                 col1ArrowLeft  == col1Num - ARROW_W
                 nameEnd        == col1ArrowLeft - NameEndGap
             IN  [toggle       |-> Zone(MARGIN, nameX - MARGIN),
                  name         |-> Zone(nameX, nameEnd - nameX),
                  arrowLeft    |-> Zone(col1ArrowLeft, ARROW_W),
                  strengthNum  |-> Zone(col1Num, STRENGTH_NUM_W),
                  arrowRight   |-> Zone(col1ArrowRight, ARROW_W),
                  has2         |-> TRUE,
                  arrowLeft2   |-> Zone(col2ArrowLeft, ARROW_W),
                  strengthNum2 |-> Zone(col2Num, STRENGTH_NUM_W),
                  arrowRight2  |-> Zone(col2ArrowRight, ARROW_W)]
        ELSE LET arrowRightEnd == width - MARGIN
                 arrowRightX   == arrowRightEnd - ARROW_W
                 numEnd        == arrowRightX
                 numX          == numEnd - STRENGTH_NUM_W
                 arrowLeftEnd  == numX
                 arrowLeftX    == arrowLeftEnd - ARROW_W
                 nameEnd       == arrowLeftX - NameEndGap
             IN  [toggle       |-> Zone(MARGIN, nameX - MARGIN),
                  name         |-> Zone(nameX, nameEnd - nameX),
                  arrowLeft    |-> Zone(arrowLeftX, ARROW_W),
                  strengthNum  |-> Zone(numX, STRENGTH_NUM_W),
                  arrowRight   |-> Zone(arrowRightX, ARROW_W),
                  has2         |-> FALSE,
                  arrowLeft2   |-> NoZone,
                  strengthNum2 |-> NoZone,
                  arrowRight2  |-> NoZone]

\* loraZones(node.size[0], dual) at the node's width, worked out once for
\* each mode
ZonesSingle == loraZones(NodeWidth, FALSE)
ZonesDual   == loraZones(NodeWidth, TRUE)
Zones(dual) == IF dual THEN ZonesDual ELSE ZonesSingle

\* x >= z.x && x < z.x + z.w
InZone(x, z) == x >= z.x /\ x < z.x + z.w

----------------------------------------------------------------------------
(* The slot widget's pointer handler *)

DoubleClickMs == 500      \* now - this._lastStrengthClick < 500

\* v[key]
Field(v, key) == IF key = "strength" THEN v.strength ELSE v.strengthTwo
\* { ...v, [key]: x }
WithField(v, key, x) ==
    IF key = "strength" THEN [Spread(v) EXCEPT !.strength = x]
    ELSE [Spread(v) EXCEPT !.strengthTwo = x]

\* Number.prototype.toFixed(2) read back as a number: halves away from zero
ToFixed2(x) ==
    IF ~IsNum(x) THEN NaN
    ELSE IF x.n >= 0 THEN Num(((x.n + 5) \div 10) * 10)
    ELSE Num(0 - (((0 - x.n) + 5) \div 10) * 10)

\* showStrengthInput(event, widget, node, key): toFixed on undefined or null
\* throws before the <input> exists, and then nothing opens
showStrengthInput(w, key) ==
    LET shown == Coalesce(Field(w.value, key), w.value.strength)
    IN  IF Nullish(shown) THEN w
        ELSE [w EXCEPT !.input = [open |-> TRUE, key |-> key,
                                  prefill |-> ToFixed2(shown)]]

\* a choice that stores the name and leaves the switch alone
SelectLoraKeepsOn(v, choice) ==
    [Spread(v) EXCEPT !.lora = choice]

\* showLoraDropdown's onSelect callback
SelectLora(v, choice) ==
    [Spread(v) EXCEPT !.lora = choice, !.on = BoolOf(choice # None)]

\* pointerdown / mousedown
MouseDown(w, dual, x) ==
    LET z == Zones(dual)
    IN  IF InZone(x, z.strengthNum)
        THEN [w EXCEPT !.drag = [armed |-> TRUE, key |-> "strength", startX |-> x,
                                 startVal |-> w.value.strength, dragged |-> FALSE]]
        ELSE IF dual /\ z.has2 /\ InZone(x, z.strengthNum2)
        THEN [w EXCEPT !.drag = [armed |-> TRUE, key |-> "strengthTwo", startX |-> x,
                                 startVal |-> Coalesce(w.value.strengthTwo,
                                                       w.value.strength),
                                 dragged |-> FALSE]]
        ELSE [w EXCEPT !.drag = NoDrag]

\* the value a drag at displacement dx from the press stores
DragValue(startVal, dx) ==
    Round2(MathMax(MinStrength, MathMin(MaxStrength, Plus(startVal, dx * DragScale))))

\* a move that adds the displacement to what the slot holds now
MouseMoveAccumulates(w, x) ==
    IF w.drag.armed
    THEN LET dx == x - w.drag.startX
         IN  IF dx > DragThreshold \/ (0 - dx) > DragThreshold
             THEN [w EXCEPT !.value = WithField(@, w.drag.key,
                                                DragValue(Field(w.value, w.drag.key), dx)),
                            !.drag.dragged = TRUE]
             ELSE w
    ELSE w

\* pointermove / mousemove
MouseMove(w, x) ==
    IF w.drag.armed
    THEN LET dx == x - w.drag.startX
         IN  IF dx > DragThreshold \/ (0 - dx) > DragThreshold
             THEN [w EXCEPT !.value = WithField(@, w.drag.key,
                                                DragValue(w.drag.startVal, dx)),
                            !.drag.dragged = TRUE]
             ELSE w
    ELSE w

\* a second-channel step that reads strengthTwo alone
StepDown2NoFallback(v) ==
    Round2(MathMax(MinStrength, Plus(v.strengthTwo, 0 - ArrowStep)))

\* the arrow steps
StepDown(s)  == Round2(MathMax(MinStrength, Plus(s, 0 - ArrowStep)))
StepUp(s)    == Round2(MathMin(MaxStrength, Plus(s, ArrowStep)))
StepDown2(v) == Round2(MathMax(MinStrength,
                               Plus(Coalesce(v.strengthTwo, v.strength), 0 - ArrowStep)))
StepUp2(v)   == Round2(MathMin(MaxStrength,
                               Plus(Coalesce(v.strengthTwo, v.strength), ArrowStep)))

\* a click on a number stepping the value up, as a click on an arrow does
ClickSteps(w, dual, now, x, choice) ==
    LET z == Zones(dual)
    IN  IF InZone(x, z.strengthNum)
        THEN [w EXCEPT !.value = [Spread(@) EXCEPT !.strength = StepUp(w.value.strength)],
                       !.lastStrengthClick = now]
        ELSE IF dual /\ z.has2 /\ InZone(x, z.strengthNum2)
        THEN [w EXCEPT !.value = [Spread(@) EXCEPT !.strengthTwo = StepUp2(w.value)],
                       !.lastStrengthClick2 = now]
        ELSE w

\* a click whose toggle branch resets the slot it switches off, and whose
\* other branches are dead on a slot that is off
ClickOffResets(w, dual, now, x, choice) ==
    LET z == Zones(dual)
    IN  IF x < z.toggle.x + z.toggle.w
        THEN IF NotFalse(w.value.on)
             THEN [w EXCEPT !.value = [Spread(@) EXCEPT !.on = OnFalse,
                                                        !.strength = Num(DefaultStrength)]]
             ELSE [w EXCEPT !.value = [Spread(@) EXCEPT !.on = OnTrue]]
        ELSE IF ~NotFalse(w.value.on) THEN w
        ELSE IF InZone(x, z.arrowLeft)
        THEN [w EXCEPT !.value = [Spread(@) EXCEPT !.strength = StepDown(w.value.strength)]]
        ELSE IF InZone(x, z.arrowRight)
        THEN [w EXCEPT !.value = [Spread(@) EXCEPT !.strength = StepUp(w.value.strength)]]
        ELSE w

\* a click whose two numbers share one double-click stamp
ClickOneDetector(w, dual, now, x, choice) ==
    LET z == Zones(dual)
    IN  IF InZone(x, z.strengthNum)
        THEN IF now - w.lastStrengthClick < DoubleClickMs
             THEN showStrengthInput([w EXCEPT !.lastStrengthClick = 0], "strength")
             ELSE [w EXCEPT !.lastStrengthClick = now]
        ELSE IF dual /\ z.has2 /\ InZone(x, z.strengthNum2)
        THEN IF now - w.lastStrengthClick < DoubleClickMs
             THEN showStrengthInput([w EXCEPT !.lastStrengthClick = 0], "strengthTwo")
             ELSE [w EXCEPT !.lastStrengthClick = now]
        ELSE IF x < z.toggle.x + z.toggle.w
        THEN [w EXCEPT !.value = [Spread(@) EXCEPT !.on = Not(w.value.on)]]
        ELSE IF choice = "" THEN w
        ELSE [w EXCEPT !.value = SelectLora(@, choice)]

\* pointerup / mouseup that is not the end of a drag: the click
Click(w, dual, now, x, choice) ==
    LET z == Zones(dual)
    IN  IF x < z.toggle.x + z.toggle.w
        THEN [w EXCEPT !.value = [Spread(@) EXCEPT !.on = Not(w.value.on)]]
        ELSE IF InZone(x, z.arrowLeft)
        THEN [w EXCEPT !.value = [Spread(@) EXCEPT !.strength = StepDown(w.value.strength)]]
        ELSE IF InZone(x, z.strengthNum)
        THEN IF now - w.lastStrengthClick < DoubleClickMs
             THEN showStrengthInput([w EXCEPT !.lastStrengthClick = 0], "strength")
             ELSE [w EXCEPT !.lastStrengthClick = now]
        ELSE IF InZone(x, z.arrowRight)
        THEN [w EXCEPT !.value = [Spread(@) EXCEPT !.strength = StepUp(w.value.strength)]]
        ELSE IF dual /\ z.has2 /\ InZone(x, z.arrowLeft2)
        THEN [w EXCEPT !.value = [Spread(@) EXCEPT !.strengthTwo = StepDown2(w.value)]]
        ELSE IF dual /\ z.has2 /\ InZone(x, z.strengthNum2)
        THEN IF now - w.lastStrengthClick2 < DoubleClickMs
             THEN showStrengthInput([w EXCEPT !.lastStrengthClick2 = 0], "strengthTwo")
             ELSE [w EXCEPT !.lastStrengthClick2 = now]
        ELSE IF dual /\ z.has2 /\ InZone(x, z.arrowRight2)
        THEN [w EXCEPT !.value = [Spread(@) EXCEPT !.strengthTwo = StepUp2(w.value)]]
        ELSE IF choice = "" THEN w   \* the menu is dismissed
        ELSE [w EXCEPT !.value = SelectLora(@, choice)]

\* a release that does not look at the drag session: always the click
MouseUpAlwaysClicks(w, dual, now, x, choice) ==
    Click([w EXCEPT !.drag = NoDrag], dual, now, x, choice)

\* pointerup / mouseup
MouseUp(w, dual, now, x, choice) ==
    IF w.drag.armed /\ w.drag.dragged
    THEN [w EXCEPT !.drag = NoDrag]
    ELSE Click([w EXCEPT !.drag = NoDrag], dual, now, x, choice)

\* dblclick delivered by the host
DblClick(w, dual, x) ==
    LET z  == Zones(dual)
        w0 == [w EXCEPT !.drag = NoDrag]
    IN  IF InZone(x, z.strengthNum) THEN showStrengthInput(w0, "strength")
        ELSE IF dual /\ z.has2 /\ InZone(x, z.strengthNum2)
        THEN showStrengthInput(w0, "strengthTwo")
        ELSE w0

----------------------------------------------------------------------------
(* The inline <input> *)

\* apply() storing what was parsed as it is
ApplyInputUnclamped(w, parsed) ==
    IF w.input.open
    THEN [w EXCEPT !.value = IF ~IsNum(parsed) THEN @
                             ELSE WithField(@, w.input.key, parsed),
                   !.input = NoInput]
    ELSE w

\* apply() ignoring a number outside [-20, 20] instead of clamping it
ApplyInputRejects(w, parsed) ==
    IF w.input.open
    THEN [w EXCEPT !.value =
                IF ~IsNum(parsed) \/ parsed.n < MinStrength \/ parsed.n > MaxStrength
                THEN @ ELSE WithField(@, w.input.key, parsed),
                   !.input = NoInput]
    ELSE w

\* apply(): parsed is parseFloat(input.value)
ApplyInput(w, parsed) ==
    IF w.input.open
    THEN [w EXCEPT !.value =
                IF ~IsNum(parsed) THEN @
                ELSE WithField(@, w.input.key,
                               MathMax(MinStrength, MathMin(MaxStrength, parsed))),
                   !.input = NoInput]
    ELSE w

----------------------------------------------------------------------------
(* Inputs *)

\* Date.now() when the node is created, and the two advances the clock makes
StartTime == 100000
ShortGap  == DoubleClickMs - 1
LongGap   == DoubleClickMs

\* saved widget values handed to configure: a single-mode record, a record
\* with an out-of-range strength and a zero strengthTwo, a record that holds
\* nothing but an empty lora, and a bare string
SavedFoo  == SlotValue(OnTrue, "123:foo", Num(800), Undefined)
SavedBar  == SlotValue(OnFalse, "456@7:bar", Num(25000), Num(0))
SavedBare == SlotValue(OnUndef, "", Undefined, Null)
SavedSamples == {SavedFoo, SavedBar, SavedBare, StringValue("123:foo")}

Saved(n) == [1..n -> SavedSamples]
Infos == [showStrengths : {"", Single, Dual},
          widgets_values : UNION {Saved(n) : n \in 0..MaxSaved}]

\* saved states configure is given while a menu may be open: none, one and
\* three slots
MenuInfos == {[showStrengths |-> "",     widgets_values |-> <<>>],
              [showStrengths |-> Single, widgets_values |-> <<SavedBar>>],
              [showStrengths |-> Dual,
               widgets_values |-> <<SavedFoo, SavedBar, SavedBare>>]}

\* what the backend answers to "list models in folder loras"
FetchResults == {<<>>, <<ModelFoo>>, <<ModelFoo, ModelBar>>}

\* pointer x positions: the last pixel of every zone
ZoneEnds(z) == {z.x + z.w - 1}
XSamples(dual) ==
    LET z == Zones(dual)
    IN  ZoneEnds(z.toggle) \cup ZoneEnds(z.name) \cup ZoneEnds(z.arrowLeft)
        \cup ZoneEnds(z.strengthNum) \cup ZoneEnds(z.arrowRight)
        \cup (IF z.has2 THEN ZoneEnds(z.arrowLeft2) \cup ZoneEnds(z.strengthNum2)
                             \cup ZoneEnds(z.arrowRight2)
              ELSE {})

\* where a press or a dblclick event may land: on a number, or off the
\* numbers (the name stands for every other zone, which the handler does not
\* tell apart on these events)
PressXs(dual) ==
    LET z == Zones(dual)
    IN  ZoneEnds(z.name) \cup ZoneEnds(z.strengthNum)
        \cup (IF z.has2 THEN ZoneEnds(z.strengthNum2) ELSE {})

\* displacements of a pointer move from the press point
DxSamples == {-3000, -3, 2, 3000}

\* parseFloat(input.value) for what the user may have typed
ParsedSamples == {NaN, Num(25000), Num(-30000), Num(123)}

----------------------------------------------------------------------------
(* State *)

\* loraZones(width, dual) has been called
LaidOut(width, dual) == [width |-> width, dual |-> dual, zones |-> loraZones(width, dual)]

\* node.computeSize()[1], the host's: one row of NODE_WIDGET_HEIGHT for each
\* widget of node.widgets
computeSize(ws) == Len(ws) * NODE_WIDGET_HEIGHT

\* a fit that only ever makes the node taller
fitNodeHeightGrows(h, ws) == IF computeSize(ws) > h THEN computeSize(ws) ELSE h

\* fitNodeHeight(node): the height node.setSize is given, h being the height
\* the node has
fitNodeHeight(h, ws) == computeSize(ws)

NoInfo == [showStrengths |-> "", widgets_values |-> <<>>]
Done(op) == [op |-> op, info |-> NoInfo, slot |-> 0, x |-> 0, drag |-> NoDrag]
\* the same for an event aimed at the slot at position slotIdx of
\* getLoraWidgets; x is where the pointer is on a move or a release (a press
\* keeps its x in the drag session)
DoneAt(op, slotIdx, x) ==
    [op |-> op, info |-> NoInfo, slot |-> slotIdx, x |-> x, drag |-> NoDrag]

\* no context menu is open
NoMenu == [open |-> FALSE, slotIdx |-> 0, isOn |-> FALSE, n |-> 0, live |-> FALSE]

Slots == getLoraWidgets(widgets)
NSlots == Len(LoraPositions(widgets))
SlotPos(k) == LoraPositions(widgets)[k]

\* an inline <input> is open (and focused)
InputOpen == \E i \in 1..Len(widgets) : IsLoraSlot(widgets[i]) /\ widgets[i].input.open

\* a node is created after the extension's setup(): connected, with the
\* catalog fetched, or not connected, with no catalog
Init ==
    /\ connected \in BOOLEAN
    /\ widgets = NewNodeWidgets(connected)
    /\ showStrengths = Single
    /\ upgradeTimer = TRUE
    /\ loraCache = IF connected THEN [present |-> TRUE, models |-> <<ModelFoo, ModelBar>>]
                   ELSE NoCache
    /\ refreshPc = "idle"
    /\ clock = StartTime
    /\ edits = 0
    /\ last = Done("onNodeCreated")
    /\ menu = NoMenu
    /\ removed = FALSE
    /\ height = fitNodeHeight(0, widgets)
    /\ layout = LaidOut(NodeWidth, FALSE)

----------------------------------------------------------------------------
(* Structural operations *)

catalogVars == <<connected, loraCache, refreshPc>>

\* the Add LoRA button's callback: a blank slot when the catalog is empty,
\* otherwise the slot chosen in the menu
AddLoraClick ==
    /\ ~InputOpen
    /\ ~removed
    /\ NSlots < MaxSlots
    /\ LET models == getFilteredLoraModels(widgets, loraCache)
       IN  IF Len(models) = 0
           THEN widgets' = addLoraSlot(widgets, showStrengths, None)
           ELSE \E v \in MenuValues(models) :
                    widgets' = addLoraSlot(widgets, showStrengths, v)
    /\ height' = fitNodeHeight(height, widgets')
    /\ last' = Done("addLoraSlot")
    /\ UNCHANGED <<showStrengths, upgradeTimer, catalogVars, clock, edits, menu, removed, layout>>

\* context menu, "Remove LoRA" (this action and the three after it: the menu
\* opened on a slot and its entry chosen at once, in one step)
RemoveLoraMenu ==
    /\ ~InputOpen
    /\ ~removed
    /\ ~menu.open
    /\ \E slotIdx \in 1..NSlots :
          /\ widgets' = RemoveLora(widgets, slotIdx)
          /\ last' = DoneAt("Remove LoRA", slotIdx, 0)
    /\ height' = fitNodeHeight(height, widgets')
    /\ UNCHANGED <<showStrengths, upgradeTimer, catalogVars, clock, edits, menu, removed, layout>>

\* context menu, "Move LoRA Up": offered when slotIdx > 0
MoveUpMenu ==
    /\ ~InputOpen
    /\ ~removed
    /\ ~menu.open
    /\ \E slotIdx \in 2..NSlots :
          /\ widgets' = MoveLoraUp(widgets, slotIdx)
          /\ last' = DoneAt("Move LoRA Up", slotIdx, 0)
    /\ UNCHANGED <<showStrengths, upgradeTimer, catalogVars, clock, edits, menu, removed, height, layout>>

\* context menu, "Move LoRA Down": offered when slotIdx < loraW.length - 1
MoveDownMenu ==
    /\ ~InputOpen
    /\ ~removed
    /\ ~menu.open
    /\ \E slotIdx \in 1..(NSlots - 1) :
          /\ widgets' = MoveLoraDown(widgets, slotIdx)
          /\ last' = DoneAt("Move LoRA Down", slotIdx, 0)
    /\ UNCHANGED <<showStrengths, upgradeTimer, catalogVars, clock, edits, menu, removed, height, layout>>

\* context menu, "Disable LoRA" / "Enable LoRA"
ToggleMenu ==
    /\ ~InputOpen
    /\ ~removed
    /\ ~menu.open
    /\ \E slotIdx \in 1..NSlots :
          LET v    == Slots[slotIdx].value
              isOn == NotFalse(v.on)
          IN  /\ widgets' = SetValue(widgets, SlotPos(slotIdx),
                                     [Spread(v) EXCEPT !.on = BoolOf(~isOn)])
              /\ last' = DoneAt("Toggle LoRA", slotIdx, 0)
    /\ UNCHANGED <<showStrengths, upgradeTimer, catalogVars, clock, edits, menu, removed, height, layout>>

\* a right click on a slot: getExtraMenuOptions builds the menu for it
MenuOpen ==
    /\ ~InputOpen
    /\ ~removed
    /\ ~menu.open
    /\ \E slotIdx \in 1..NSlots :
          /\ menu' = [open |-> TRUE, slotIdx |-> slotIdx,
                      isOn |-> NotFalse(Slots[slotIdx].value.on),
                      n |-> NSlots, live |-> TRUE]
          /\ last' = DoneAt("menu", slotIdx, 0)
    /\ UNCHANGED <<widgets, showStrengths, upgradeTimer, catalogVars, clock, edits, removed, height, layout>>

\* the open menu's "Remove LoRA" entry is chosen
MenuRemove ==
    /\ menu.open
    /\ widgets' = RemoveLoraCallback(widgets, menu)
    /\ last' = DoneAt("menu: Remove LoRA", menu.slotIdx, 0)
    /\ menu' = NoMenu
    /\ height' = fitNodeHeight(height, widgets')
    /\ UNCHANGED <<showStrengths, upgradeTimer, catalogVars, clock, edits, removed, layout>>

\* the open menu's "Move LoRA Up" entry, pushed when slotIdx > 0
MenuMoveUp ==
    /\ menu.open
    /\ menu.slotIdx > 1
    /\ widgets' = MoveUpCallback(widgets, menu)
    /\ last' = DoneAt("menu: Move LoRA Up", menu.slotIdx, 0)
    /\ menu' = NoMenu
    /\ UNCHANGED <<showStrengths, upgradeTimer, catalogVars, clock, edits, removed, height, layout>>

\* the open menu's "Move LoRA Down" entry, pushed when
\* slotIdx < loraW.length - 1
MenuMoveDown ==
    /\ menu.open
    /\ menu.slotIdx < menu.n
    /\ widgets' = MoveDownCallback(widgets, menu)
    /\ last' = DoneAt("menu: Move LoRA Down", menu.slotIdx, 0)
    /\ menu' = NoMenu
    /\ UNCHANGED <<showStrengths, upgradeTimer, catalogVars, clock, edits, removed, height, layout>>

\* the open menu's "Disable LoRA" / "Enable LoRA" entry
MenuToggle ==
    /\ menu.open
    /\ widgets' = ToggleCallback(widgets, menu)
    /\ last' = DoneAt("menu: Toggle LoRA", menu.slotIdx, 0)
    /\ menu' = NoMenu
    /\ UNCHANGED <<showStrengths, upgradeTimer, catalogVars, clock, edits, removed, height, layout>>

\* pointerup on the Toggle All widget
ToggleAllClick ==
    /\ ~InputOpen
    /\ ~removed
    /\ widgets' = ToggleAll(widgets)
    /\ last' = Done("toggle_all")
    /\ UNCHANGED <<showStrengths, upgradeTimer, catalogVars, clock, edits, menu, removed, height, layout>>

\* the host sets the showStrengths property and calls node.onPropertyChanged
PropertyChanged ==
    /\ ~InputOpen
    /\ ~removed
    /\ \E value \in {Single, Dual} :
          /\ showStrengths' = value
          /\ widgets' = onPropertyChanged(widgets, value)
    /\ last' = Done("onPropertyChanged")
    /\ UNCHANGED <<upgradeTimer, catalogVars, clock, edits, menu, removed, height, layout>>

\* node.configure(info), info drawn from the set infos
ConfigureFrom(infos) ==
    /\ ~removed
    /\ \E info \in infos :
          /\ widgets' = configureWidgets(widgets, info)
          /\ showStrengths' = configureMode(showStrengths, info)
          /\ last' = [Done("configure") EXCEPT !.info = info]
    \* every slot widget is replaced: what an open menu captured is in
    \* node.widgets no more
    /\ menu' = [menu EXCEPT !.live = FALSE]
    /\ height' = fitNodeHeight(height, widgets')
    /\ UNCHANGED <<upgradeTimer, catalogVars, clock, edits, removed, layout>>

Configure == ConfigureFrom(Infos)

\* a save followed by a restore of what was saved
SaveRestore ==
    /\ ~removed
    /\ NSlots <= MaxSaved
    /\ widgets' = configureWidgets(widgets, SavedInfo(widgets, showStrengths))
    /\ showStrengths' = configureMode(showStrengths, SavedInfo(widgets, showStrengths))
    /\ last' = [Done("save+configure") EXCEPT !.info = SavedInfo(widgets, showStrengths)]
    \* every slot widget is replaced: what an open menu captured is in
    \* node.widgets no more
    /\ menu' = [menu EXCEPT !.live = FALSE]
    /\ height' = fitNodeHeight(height, widgets')
    /\ UNCHANGED <<upgradeTimer, catalogVars, clock, edits, removed, layout>>

\* the API JSON load path leaves a bare string in a slot widget, before the
\* upgrade pass has run
ApiLoad ==
    /\ ~removed
    /\ upgradeTimer
    /\ \E slotIdx \in 1..NSlots, s \in {None, "123:foo"} :
          widgets' = SetValue(widgets, SlotPos(slotIdx), StringValue(s))
    /\ last' = Done("api load")
    /\ UNCHANGED <<showStrengths, upgradeTimer, catalogVars, clock, edits, menu, removed, height, layout>>

\* the setTimeout callback of onNodeCreated
UpgradePass ==
    /\ upgradeTimer
    /\ upgradeTimer' = FALSE
    /\ widgets' = upgradePass(widgets, showStrengths)
    /\ last' = Done("upgrade")
    /\ UNCHANGED <<showStrengths, catalogVars, clock, edits, menu, removed, height, layout>>

----------------------------------------------------------------------------
(* Pointer events on a slot widget; a press anywhere first takes the focus
   from an open <input>, so none is open when they arrive *)

SetWidget(ws, i, w) == [ws EXCEPT ![i] = w]

\* the strengths the widgets of the list hold, in list order
Strengths(ws) ==
    [i \in 1..Len(ws) |->
        IF IsLoraSlot(ws[i]) THEN <<ws[i].value.strength, ws[i].value.strengthTwo>>
        ELSE <<>>]

\* an event that changes a strength counts against MaxEdits
CountEdit ==
    /\ edits' = IF Strengths(widgets') # Strengths(widgets) THEN edits + 1 ELSE edits
    /\ edits' <= MaxEdits

SlotMouseDown ==
    /\ ~InputOpen
    /\ ~removed
    /\ \E slotIdx \in 1..NSlots :
          LET w   == Slots[slotIdx]
              pos == SlotPos(slotIdx)
          IN  \E x \in PressXs(isDualMode(showStrengths)) :
                 /\ widgets' = SetWidget(widgets, pos,
                                   MouseDown(w, isDualMode(showStrengths), x))
                 /\ last' = DoneAt("pointerdown", slotIdx, 0)
    /\ UNCHANGED <<showStrengths, upgradeTimer, catalogVars, clock, edits, menu, removed, height, layout>>

\* where a move may find the pointer: at a displacement from the press while
\* a drag session lasts, over the first number otherwise
MoveXs(w, dual) ==
    IF w.drag.armed THEN {w.drag.startX + dx : dx \in DxSamples}
    ELSE ZoneEnds(Zones(dual).strengthNum)

SlotMouseMove ==
    /\ ~InputOpen
    /\ ~removed
    /\ \E slotIdx \in 1..NSlots :
          LET w   == Slots[slotIdx]
              pos == SlotPos(slotIdx)
          IN  \E x \in MoveXs(w, isDualMode(showStrengths)) :
                 /\ widgets' = SetWidget(widgets, pos, MouseMove(w, x))
                 /\ last' = DoneAt("pointermove", slotIdx, x)
    /\ CountEdit
    /\ UNCHANGED <<showStrengths, upgradeTimer, catalogVars, clock, menu, removed, height, layout>>

SlotMouseUp ==
    /\ ~InputOpen
    /\ ~removed
    /\ \E slotIdx \in 1..NSlots :
          LET w   == Slots[slotIdx]
              pos == SlotPos(slotIdx)
          IN  \E x \in XSamples(isDualMode(showStrengths)) :
              \* the menu opens for a release on the name only; "" dismisses it
              \E choice \in IF InZone(x, Zones(isDualMode(showStrengths)).name)
                             THEN MenuValues(getFilteredLoraModels(widgets, loraCache))
                                      \cup {""}
                             ELSE {""} :
                 /\ widgets' = SetWidget(widgets, pos,
                                   MouseUp(w, isDualMode(showStrengths),
                                           clock, x, choice))
                 \* with the drag session the release found: its channel
                 \* and whether it had dragged
                 /\ last' = [DoneAt("pointerup", slotIdx, x) EXCEPT
                                 !.drag = [w.drag EXCEPT
                                              !.startX = 0, !.startVal = Undefined]]
    /\ CountEdit
    /\ UNCHANGED <<showStrengths, upgradeTimer, catalogVars, clock, menu, removed, height, layout>>

SlotDblClick ==
    /\ ~InputOpen
    /\ ~removed
    /\ \E slotIdx \in 1..NSlots :
          LET w   == Slots[slotIdx]
              pos == SlotPos(slotIdx)
          IN  \E x \in PressXs(isDualMode(showStrengths)) :
                 /\ widgets' = SetWidget(widgets, pos,
                                   DblClick(w, isDualMode(showStrengths), x))
                 /\ last' = DoneAt("dblclick", slotIdx, 0)
    /\ UNCHANGED <<showStrengths, upgradeTimer, catalogVars, clock, edits, menu, removed, height, layout>>

\* Enter, or the loss of focus: apply() with what the <input> holds, either
\* the text it was opened with or what the user typed
InputCommit ==
    /\ \E i \in 1..Len(widgets) :
          /\ IsLoraSlot(widgets[i])
          /\ widgets[i].input.open
          /\ \E parsed \in ParsedSamples \cup {widgets[i].input.prefill} :
                widgets' = SetWidget(widgets, i, ApplyInput(widgets[i], parsed))
    /\ CountEdit
    /\ last' = Done("input commit")
    /\ UNCHANGED <<showStrengths, upgradeTimer, catalogVars, clock, menu, removed, height, layout>>

\* Escape: input.remove(). Removing the focused element makes some browsers
\* dispatch blur, and then apply() runs with the text typed so far
InputEscape ==
    /\ \E i \in 1..Len(widgets) :
          /\ IsLoraSlot(widgets[i])
          /\ widgets[i].input.open
          /\ \/ widgets' = SetWidget(widgets, i, [widgets[i] EXCEPT !.input = NoInput])
             \/ \E parsed \in ParsedSamples \cup {widgets[i].input.prefill} :
                   widgets' = SetWidget(widgets, i, ApplyInput(widgets[i], parsed))
    /\ CountEdit
    /\ last' = Done("input escape")
    /\ UNCHANGED <<showStrengths, upgradeTimer, catalogVars, clock, menu, removed, height, layout>>

\* time passes
Tick ==
    /\ clock < StartTime + MaxTicks * LongGap
    /\ \E d \in {ShortGap, LongGap} : clock' = clock + d
    /\ UNCHANGED <<widgets, showStrengths, upgradeTimer, catalogVars, edits, last, menu, removed, height, layout>>

----------------------------------------------------------------------------
(* Connection and catalog *)

\* updateAllWidgets(): the auth button shows the connection state
RenameAuth(ws, conn) ==
    [i \in 1..Len(ws) |->
        IF ws[i].kind = "auth" THEN [ws[i] EXCEPT !.name = AuthName(conn)] ELSE ws[i]]
RenameRefresh(ws, name) ==
    [i \in 1..Len(ws) |->
        IF ws[i].kind = "refresh" THEN [ws[i] EXCEPT !.name = name] ELSE ws[i]]

\* the connect dialog succeeds; refreshAllModels() starts
Connect ==
    /\ ~connected
    /\ refreshPc = "idle"
    /\ connected' = TRUE
    \* updateAllWidgets() reaches the auth buttons in trackedWidgets
    /\ widgets' = IF removed THEN widgets ELSE RenameAuth(widgets, TRUE)
    /\ refreshPc' = "fetch"
    /\ last' = Done("connect")
    /\ UNCHANGED <<showStrengths, upgradeTimer, loraCache, clock, edits, menu, removed, height, layout>>

\* doDisconnect()
Disconnect ==
    /\ connected
    /\ connected' = FALSE
    /\ loraCache' = NoCache
    /\ widgets' = IF removed THEN widgets ELSE RenameAuth(widgets, FALSE)
    /\ last' = Done("disconnect")
    /\ UNCHANGED <<showStrengths, upgradeTimer, refreshPc, clock, edits, menu, removed, height, layout>>

\* the Refresh Models button's callback, up to its first await
RefreshClick ==
    /\ ~removed
    /\ connected
    /\ refreshPc = "idle"
    /\ refreshPc' = "post"
    /\ widgets' = RenameRefresh(widgets, "Refreshing...")
    /\ last' = Done("refresh click")
    /\ UNCHANGED <<showStrengths, upgradeTimer, connected, loraCache, clock, edits, menu, removed, height, layout>>

\* POST refresh-models has answered: refreshAllModels() runs refreshModels,
\* which returns at once when disconnected
RefreshPosted ==
    /\ refreshPc = "post"
    /\ IF connected
       THEN refreshPc' = "fetch" /\ UNCHANGED widgets
       ELSE refreshPc' = "idle" /\ widgets' = RenameRefresh(widgets, "Refresh Models")
    /\ last' = Done("refresh posted")
    /\ UNCHANGED <<showStrengths, upgradeTimer, connected, loraCache, clock, edits, menu, removed, height, layout>>

\* GET models/loras has answered: refreshModels writes the cache
RefreshFetched ==
    /\ refreshPc = "fetch"
    /\ refreshPc' = "idle"
    /\ \E models \in FetchResults :
          loraCache' = [present |-> TRUE, models |-> models]
    /\ widgets' = IF \E i \in 1..Len(widgets) : widgets[i].name = "Refreshing..."
                  THEN RenameRefresh(widgets, "Refresh Models") ELSE widgets
    /\ last' = Done("refresh fetched")
    /\ UNCHANGED <<showStrengths, upgradeTimer, connected, clock, edits, menu, removed, height, layout>>

\* a choice of base model that keeps in the cache only the models it lets through
BaseModelChooseFilters ==
    /\ ~InputOpen
    /\ ~removed
    /\ loraCache.present
    /\ \E i \in 1..Len(widgets), v \in getBaseModelOptions(loraCache) :
          /\ widgets[i].name = "base_model"
          /\ widgets[i].value # v
          /\ widgets' = SetWidget(widgets, i, [widgets[i] EXCEPT !.value = v])
    /\ loraCache' = [loraCache EXCEPT !.models = getFilteredLoraModels(widgets', loraCache)]
    /\ last' = Done("base_model")
    /\ UNCHANGED <<showStrengths, upgradeTimer, connected, refreshPc, clock, edits, menu,
                   removed, height, layout>>

\* the user picks an entry of the base_model combo: the widget takes the
\* value, then its callback runs updateNodeCombo, which writes nothing the
\* model reads. While the cache is present the combo's options are
\* getBaseModelOptions of it
BaseModelChoose ==
    /\ ~InputOpen
    /\ ~removed
    /\ loraCache.present
    /\ \E i \in 1..Len(widgets), v \in getBaseModelOptions(loraCache) :
          /\ widgets[i].name = "base_model"
          /\ widgets[i].value # v
          /\ widgets' = SetWidget(widgets, i, [widgets[i] EXCEPT !.value = v])
    /\ last' = Done("base_model")
    /\ UNCHANGED <<showStrengths, upgradeTimer, catalogVars, clock, edits, menu, removed, height, layout>>

\* the node is removed from the graph: node.onRemoved takes its auth button
\* out of trackedWidgets, and nothing else
NodeRemoved ==
    /\ ~removed
    /\ removed' = TRUE
    /\ last' = Done("onRemoved")
    /\ UNCHANGED <<widgets, showStrengths, upgradeTimer, catalogVars, clock, edits, menu,
                   height, layout>>

\* the user drags the node's corner: the host gives the node a height that
\* leaves room below its widgets
Resize ==
    /\ ~removed
    /\ \E rows \in 1..MaxSpare :
          height' = computeSize(widgets) + rows * NODE_WIDGET_HEIGHT
    /\ height' # height
    /\ last' = Done("resize")
    /\ UNCHANGED <<widgets, showStrengths, upgradeTimer, catalogVars, clock, edits, menu,
                   removed, layout>>

\* the slot widget's draw or mouse handler calls loraZones(node.size[0],
\* dual) at the width the node has then: any width, since the host takes it
\* from the user's resizes and from the size saved in a workflow
Layout ==
    /\ \E width \in 0..MaxWidth, dual \in BOOLEAN : layout' = LaidOut(width, dual)
    /\ layout' # layout
    /\ last' = Done("loraZones")
    /\ UNCHANGED <<widgets, showStrengths, upgradeTimer, catalogVars, clock, edits, menu,
                   removed, height>>

----------------------------------------------------------------------------
(* Specifications *)

\* lifecycle, structure, mode and persistence
NextNode ==
    \/ AddLoraClick
    \/ RemoveLoraMenu
    \/ MoveUpMenu
    \/ MoveDownMenu
    \/ ToggleMenu
    \/ ToggleAllClick
    \/ PropertyChanged
    \/ Configure
    \/ SaveRestore
    \/ ApiLoad
    \/ UpgradePass

\* connection and catalog refresh
NextCatalog ==
    \/ Connect
    \/ Disconnect
    \/ RefreshClick
    \/ RefreshPosted
    \/ RefreshFetched

\* the slot widget's pointer handler and the inline <input>
NextEdit ==
    \/ SlotMouseDown
    \/ SlotMouseMove
    \/ SlotMouseUp
    \/ SlotDblClick
    \/ InputCommit
    \/ InputEscape

NextPointer == NextEdit \/ Tick

\* the Add LoRA button against the catalog and the base_model filter
NextAdd ==
    \/ AddLoraClick
    \/ RemoveLoraMenu
    \/ PropertyChanged
    \/ BaseModelChoose
    \/ NextCatalog

\* the context menu of a slot, from its opening to the entry chosen, with
\* the operations that can reach the node while it is open
NextMenu ==
    \/ MenuOpen
    \/ MenuRemove
    \/ MenuMoveUp
    \/ MenuMoveDown
    \/ MenuToggle
    \/ AddLoraClick
    \/ ToggleAllClick
    \/ PropertyChanged
    \/ ConfigureFrom(MenuInfos)

Next == NextNode \/ NextCatalog \/ NextPointer \/ BaseModelChoose \/ NextMenu
            \/ NodeRemoved \/ Resize \/ Layout

Spec == Init /\ [][Next]_vars

\* a node restored by configure from one saved slot whose strengths lie in
\* [-20, 20]: next to a limit in single mode, with no strengthTwo yet in dual
\* mode; disconnected and past its upgrade pass
SavedEdge == SlotValue(OnFalse, "456@7:bar", Num(19990), Num(-19980))
EditInfos == {[showStrengths |-> Single, widgets_values |-> <<SavedEdge>>],
              [showStrengths |-> Dual,   widgets_values |-> <<SavedFoo>>]}
InitEdit ==
    /\ connected = FALSE
    /\ loraCache = NoCache
    /\ refreshPc = "idle"
    /\ upgradeTimer = FALSE
    /\ clock = StartTime
    /\ edits = 0
    /\ menu = NoMenu
    /\ removed = FALSE
    /\ \E info \in EditInfos :
          /\ widgets = configureWidgets(NewNodeWidgets(FALSE), info)
          /\ showStrengths = configureMode(Single, info)
          /\ last = [Done("configure") EXCEPT !.info = info]
          /\ height = fitNodeHeight(0, widgets)
          /\ layout = LaidOut(NodeWidth, FALSE)

\* strength editing, with the clock standing still
SpecEdit == InitEdit /\ [][NextEdit]_vars

SpecNode == Init /\ [][NextNode]_vars

SpecAdd == Init /\ [][NextAdd]_vars

SpecMenu == Init /\ [][NextMenu]_vars

\* the three ways to switch a slot on and off, among the strength edits
NextToggle ==
    \/ NextEdit
    \/ ToggleAllClick
    \/ ToggleMenu

SpecToggle == InitEdit /\ [][NextToggle]_vars

\* a connected node, its catalog fetched, restored with one slot in dual
\* mode or with two slots in single mode; the strength edits the model
\* follows are spent, so that the events that follow change no strength
InitClick ==
    /\ connected = TRUE
    /\ loraCache = [present |-> TRUE, models |-> <<ModelFoo, ModelBar>>]
    /\ refreshPc = "idle"
    /\ upgradeTimer = FALSE
    /\ clock = StartTime
    /\ edits = MaxEdits
    /\ menu = NoMenu
    /\ removed = FALSE
    /\ \E info \in { [showStrengths |-> Dual, widgets_values |-> <<SavedFoo>>],
                      [showStrengths |-> Single,
                       widgets_values |-> <<SavedFoo, SavedBar>>] } :
           /\ widgets = configureWidgets(NewNodeWidgets(TRUE), info)
           /\ showStrengths = configureMode(Single, info)
           /\ last = [Done("configure") EXCEPT !.info = info]
           /\ height = fitNodeHeight(0, widgets)
           /\ layout = LaidOut(NodeWidth, FALSE)

\* releases on the zones of a slot as time passes, and the overlay they open
SpecClick ==
    InitClick /\ [][ \/ SlotMouseUp
                     \/ Tick
                     \/ InputCommit ]_vars

\* the overlay of a slot, opened by a double click, and the removal of the node
SpecRemoved ==
    InitEdit /\ [][ \/ SlotDblClick
                    \/ InputCommit
                    \/ InputEscape
                    \/ NodeRemoved ]_vars

\* the operations that change the number of widgets, and the user's resizes
SpecSize ==
    Init /\ [][ \/ AddLoraClick
                \/ MenuOpen
                \/ MenuRemove
                \/ ConfigureFrom(MenuInfos)
                \/ Resize ]_vars

\* the zones of a slot at every width and in both modes
SpecZones == Init /\ [][Layout]_vars

----------------------------------------------------------------------------
(* Properties *)

InRange(x) == IsNum(x) /\ MinStrength <= x.n /\ x.n <= MaxStrength

\* C2: from a slot whose strengths lie in [-20, 20], after any sequence of
\* arrow clicks, drag moves in either channel and <input> commits, in Single
\* or Dual mode, every slot's strength and, when set, strengthTwo lie in
\* [-20, 20]
C2_StrengthClamped ==
    \A k \in 1..NSlots :
        /\ InRange(Slots[k].value.strength)
        /\ Nullish(Slots[k].value.strengthTwo) \/ InRange(Slots[k].value.strengthTwo)

\* C2 witness: a drag, an arrow click or a commit has pushed a strength
\* against a limit after an earlier edit
C2_Witness ==
    /\ edits = MaxEdits
    /\ last.op \in {"pointermove", "pointerup", "input commit"}
    /\ \E k \in 1..NSlots :
          \/ Slots[k].value.strength \in {Num(MinStrength), Num(MaxStrength)}
          \/ Slots[k].value.strengthTwo \in {Num(MinStrength), Num(MaxStrength)}

\* every slot widget of a widget list, in list order
SlotWidgets(ws) == SelectSeq(ws, IsLoraSlot)

\* C1: the names of the slot widgets, in widget-list order, are exactly
\* lora_1, lora_2, ..., lora_N: no gap, no duplicate, for every N >= 0
C1_NamesSequential ==
    \A k \in 1..Len(SlotWidgets(widgets)) :
        /\ SlotWidgets(widgets)[k].name = "lora_"
        /\ SlotWidgets(widgets)[k].idx = k

\* a slot was added to a node whose slots had all been removed
C1_Witness ==
    /\ last.op = "addLoraSlot"
    /\ Len(SlotWidgets(widgets)) = 1

\* C3: each slot's serializeValue holds a non-null strengthTwo if and only
\* if the node is in dual mode
C3_SerializedShape ==
    \A k \in 1..Len(SlotWidgets(widgets)) :
        ~Nullish(serializeValue(SlotWidgets(widgets)[k].value, showStrengths).strengthTwo)
            <=> isDualMode(showStrengths)

\* C4: after configure the auth and the refresh button come after the last
\* slot widget and after the Add LoRA button, auth before refresh, and no
\* button sits between base_model / toggle_all and the slots
C4_TrailingSurvive ==
    last.op = "configure" =>
        LET auth    == IndexOfKind(widgets, "auth")
            refresh == IndexOfKind(widgets, "refresh")
            add     == IndexOfKind(widgets, "add_lora")
            toggle  == IndexOfKind(widgets, "toggle_all")
        IN  /\ auth > add
            /\ refresh > auth
            /\ \A i \in 1..Len(widgets) : IsLoraSlot(widgets[i]) => i < auth
            /\ toggle = IndexOfKind(widgets, "base_model") + 1

\* a slot value as add, configure and the edits leave it: an object with a
\* boolean on, a lora name and a numeric strength
WellFormed(v) ==
    /\ v.typ = "object" /\ v.chars = ""
    /\ v.on \in {OnTrue, OnFalse}
    /\ v.lora \notin {NoString, ""}
    /\ IsNum(v.strength)
    /\ v.strengthTwo.t \in {"num", "null"}
AllWellFormed(ws) ==
    \A k \in 1..Len(SlotWidgets(ws)) : WellFormed(SlotWidgets(ws)[k].value)

\* the slots of after are those of before: as many, in the same order, with
\* equal on, lora and strength, and strengthTwo equal in dual mode, absent
\* in single mode
SameSlotsRestored(before, after, mode) ==
    /\ Len(SlotWidgets(after)) = Len(SlotWidgets(before))
    /\ \A k \in 1..Len(SlotWidgets(before)) :
          LET a == SlotWidgets(before)[k].value
              b == SlotWidgets(after)[k].value
          IN  /\ b.on = a.on
              /\ b.lora = a.lora
              /\ b.strength = a.strength
              /\ IF mode = Dual THEN b.strengthTwo = a.strengthTwo
                 ELSE b.strengthTwo = Null

\* C5, as claimed: feeding every slot's serializeValue, with the same mode,
\* to configure gives back the same slots, whatever their number
C5_RoundTripAnyCount ==
    [][ (last'.op = "save+configure" /\ AllWellFormed(widgets))
            => /\ showStrengths' = showStrengths
               /\ SameSlotsRestored(widgets, widgets', showStrengths) ]_vars

\* C5, amended: feeding every slot's serializeValue, with the same mode, to
\* configure gives back the same slots when there is at least one slot
C5_RoundTrip ==
    [][ (last'.op = "save+configure" /\ AllWellFormed(widgets)
         /\ Len(SlotWidgets(widgets)) >= 1)
            => /\ showStrengths' = showStrengths
               /\ SameSlotsRestored(widgets, widgets', showStrengths) ]_vars

\* the single-mode slot {on: true, lora: "123:foo", strength: 0.8} restored
\* from its own serialization
C5_Witness ==
    /\ last.op = "save+configure"
    /\ showStrengths = Single
    /\ Len(SlotWidgets(widgets)) = 1
    /\ SlotWidgets(widgets)[1].value = SlotValue(OnTrue, "123:foo", Num(800), Null)
    /\ last.info.widgets_values = <<SlotValue(OnTrue, "123:foo", Num(800), Undefined)>>

\* C6: the upgrade pass replaces every bare string s by the record
\* {on: s is not "None", lora: s, strength: 1.0, strengthTwo: 1.0 in dual
\* mode and absent otherwise} and leaves every other widget as it was
C6_Upgrade ==
    [][ (upgradeTimer /\ ~upgradeTimer')
            => /\ Len(widgets') = Len(widgets)
               /\ \A i \in 1..Len(widgets) :
                     IF IsLoraSlot(widgets[i]) /\ widgets[i].value.typ = "string"
                     THEN widgets'[i].value =
                              SlotValue(BoolOf(widgets[i].value.chars # None),
                                        widgets[i].value.chars,
                                        Num(DefaultStrength),
                                        IF showStrengths = Dual
                                        THEN Num(DefaultStrength) ELSE Null)
                     ELSE widgets'[i] = widgets[i] ]_vars

\* the pass has run on the strings "123:foo" and "None"
C6_Witness ==
    /\ last.op = "upgrade"
    /\ Len(SlotWidgets(widgets)) = 2
    /\ SlotWidgets(widgets)[1].value =
           SlotValue(OnTrue, "123:foo", Num(DefaultStrength), Null)
    /\ SlotWidgets(widgets)[2].value =
           SlotValue(OnFalse, None, Num(DefaultStrength), Null)

\* C7: configure given no record-shaped slot value leaves exactly one slot,
\* lora_1, holding the default record; configure never leaves zero slots
C7_EmptyFallback ==
    /\ last.op \in {"configure", "save+configure"} => Len(SlotWidgets(widgets)) >= 1
    /\ (/\ last.op = "configure"
        /\ \A i \in 1..Len(last.info.widgets_values) :
              ~(last.info.widgets_values[i].typ = "object"
                /\ last.info.widgets_values[i].lora # NoString))
       => /\ Len(SlotWidgets(widgets)) = 1
          /\ SlotWidgets(widgets)[1].name = "lora_"
          /\ SlotWidgets(widgets)[1].idx = 1
          /\ SlotWidgets(widgets)[1].value =
                 SlotValue(OnTrue, None, Num(DefaultStrength), Null)

\* configure was given a list holding only a bare string
C7_Witness ==
    /\ last.op = "configure"
    /\ last.info.widgets_values = <<StringValue("123:foo")>>
    /\ Len(SlotWidgets(widgets)) = 1

\* C8: a showStrengths change leaves the number and the order of the slots
\* and every slot's on, lora and strength as they were
C8_ModeKeepsFields ==
    [][ last'.op = "onPropertyChanged"
            => /\ Len(widgets') = Len(widgets)
               /\ \A i \in 1..Len(widgets) :
                     /\ widgets'[i].kind = widgets[i].kind
                     /\ IsLoraSlot(widgets[i]) =>
                           /\ widgets'[i].value.on = widgets[i].value.on
                           /\ widgets'[i].value.lora = widgets[i].value.lora
                           /\ widgets'[i].value.strength = widgets[i].value.strength
                           /\ widgets'[i].idx = widgets[i].idx ]_vars

\* the mode was changed on a node holding the restored slot "123:foo" at 0.8
C8_Witness ==
    /\ last.op = "onPropertyChanged"
    /\ \E k \in 1..Len(SlotWidgets(widgets)) :
          /\ SlotWidgets(widgets)[k].value.lora = "123:foo"
          /\ SlotWidgets(widgets)[k].value.strength = Num(800)

\* C9: on a change to "Model & Clip" a slot whose strengthTwo is absent gets
\* its strength as strengthTwo, and a slot whose strengthTwo is a number,
\* zero included, keeps it
C9_DualLinks ==
    [][ (last'.op = "onPropertyChanged" /\ showStrengths' = Dual)
            => \A i \in 1..Len(widgets) :
                  IsLoraSlot(widgets[i]) =>
                      IF widgets[i].value.strengthTwo.t \in {"null", "undefined"}
                      THEN widgets'[i].value.strengthTwo = widgets[i].value.strength
                      ELSE widgets'[i].value.strengthTwo = widgets[i].value.strengthTwo
      ]_vars

\* after the change one slot is linked (strengthTwo = strength = 0.8) and
\* another kept its zero strengthTwo beside a strength of 25
C9_Witness ==
    /\ last.op = "onPropertyChanged"
    /\ showStrengths = Dual
    /\ \E k \in 1..Len(SlotWidgets(widgets)) :
          /\ SlotWidgets(widgets)[k].value.strength = Num(800)
          /\ SlotWidgets(widgets)[k].value.strengthTwo = Num(800)
    /\ \E k \in 1..Len(SlotWidgets(widgets)) :
          /\ SlotWidgets(widgets)[k].value.strength = Num(25000)
          /\ SlotWidgets(widgets)[k].value.strengthTwo = Num(0)

\* C10: on a change to a value other than "Model & Clip" every slot's
\* strengthTwo becomes null
C10_SingleClears ==
    [][ (last'.op = "onPropertyChanged" /\ showStrengths' # Dual)
            => \A i \in 1..Len(widgets') :
                  IsLoraSlot(widgets'[i]) => widgets'[i].value.strengthTwo = Null
      ]_vars

\* the change to single has run on a node of two slots, one of them the
\* restored "456@7:bar", which was saved with a strengthTwo of zero
C10_Witness ==
    /\ last.op = "onPropertyChanged"
    /\ showStrengths = Single
    /\ Len(SlotWidgets(widgets)) = 2
    /\ \E k \in 1..2 : SlotWidgets(widgets)[k].value.lora = "456@7:bar"
    /\ \A k \in 1..2 : SlotWidgets(widgets)[k].value.strengthTwo = Null

\* how many slots of ws are enabled (on is not false)
EnabledCount(ws) ==
    Cardinality({k \in 1..Len(SlotWidgets(ws)) : SlotWidgets(ws)[k].value.on # OnFalse})

\* C11: the Toggle All switch is drawn "on" iff the list is non-empty and
\* every slot is enabled, "partial" iff some but not all slots are enabled,
\* "off" iff no slot is enabled or the list is empty; the widget itself
\* holds nothing but its name
C11_ToggleAllDerived ==
    LET n == Len(SlotWidgets(widgets))
        e == EnabledCount(widgets)
    IN  /\ toggleAllDraw(widgets) = "on" <=> (n > 0 /\ e = n)
        /\ toggleAllDraw(widgets) = "partial" <=> (0 < e /\ e < n)
        /\ toggleAllDraw(widgets) = "off" <=> (e = 0)
        /\ toggleAllDraw(widgets) \in {"on", "partial", "off"}
        /\ \A i \in 1..Len(widgets) :
              IsToggleAll(widgets[i]) => widgets[i] = createToggleAllWidget

\* one slot of two is disabled, and the switch is drawn partial
C11_Witness ==
    /\ Len(SlotWidgets(widgets)) = 2
    /\ EnabledCount(widgets) = 1
    /\ toggleAllDraw(widgets) = "partial"


\* C12: a click on Toggle All sets every slot's on to the negation of "the
\* list is non-empty and every slot is enabled" as it was before the click,
\* changes no slot's lora, strength or strengthTwo, and changes nothing when
\* there is no slot
C12_ToggleAllClick ==
    [][ last'.op = "toggle_all"
            => LET n     == Len(SlotWidgets(widgets))
                   allOn == n > 0 /\ EnabledCount(widgets) = n
               IN  /\ Len(widgets') = Len(widgets)
                   /\ n = 0 => widgets' = widgets
                   /\ \A i \in 1..Len(widgets) :
                         IF IsLoraSlot(widgets[i])
                         THEN /\ widgets'[i].value.on = BoolOf(~allOn)
                              /\ widgets'[i].value.lora = widgets[i].value.lora
                              /\ widgets'[i].value.strength = widgets[i].value.strength
                              /\ widgets'[i].value.strengthTwo = widgets[i].value.strengthTwo
                              /\ widgets'[i].idx = widgets[i].idx
                         ELSE widgets'[i] = widgets[i] ]_vars

\* a click has just disabled both slots of a node: they were all enabled
C12_Witness ==
    /\ last.op = "toggle_all"
    /\ Len(SlotWidgets(widgets)) = 2
    /\ EnabledCount(widgets) = 0
    /\ \E k \in 1..2 : SlotWidgets(widgets)[k].value.lora = "456@7:bar"

\* the numeric zone of a channel, and the channel's click stamp
NumZone(dual, key) ==
    IF key = "strength" THEN Zones(dual).strengthNum
    ELSE Zones(dual).strengthNum2
Stamp(w, key) == IF key = "strength" THEN w.lastStrengthClick ELSE w.lastStrengthClick2
OtherKey(key) == IF key = "strength" THEN "strengthTwo" ELSE "strength"

\* the slot the last event was aimed at, before and after it
Aimed == Slots[last'.slot]
AimedAfter == getLoraWidgets(widgets')[last'.slot]

\* a release that ends a press in a numeric zone, without a drag, inside
\* the zone of the press
SmallDragRelease ==
    /\ last'.op = "pointerup"
    /\ Aimed.drag.armed /\ ~Aimed.drag.dragged
    /\ InZone(last'.x, NumZone(isDualMode(showStrengths), Aimed.drag.key))

\* a press changes no slot record, no stamp and opens nothing; a move within
\* the threshold changes nothing at all
PressAndSmallMoveInert ==
    /\ last'.op = "pointerdown" =>
          /\ Len(widgets') = Len(widgets)
          /\ \A i \in 1..Len(widgets) :
                IF IsLoraSlot(widgets[i])
                THEN /\ widgets'[i].value = widgets[i].value
                     /\ widgets'[i].input = widgets[i].input
                     /\ widgets'[i].lastStrengthClick = widgets[i].lastStrengthClick
                     /\ widgets'[i].lastStrengthClick2 = widgets[i].lastStrengthClick2
                ELSE widgets'[i] = widgets[i]
    /\ (/\ last'.op = "pointermove"
        /\ last'.x - Aimed.drag.startX <= DragThreshold
        /\ Aimed.drag.startX - last'.x <= DragThreshold) => widgets' = widgets

\* C13, as claimed: a press in a numeric zone, moves within the threshold
\* and a release in the same zone leave the slot record unchanged, and the
\* release stamps the channel's double-click detector
C13_SmallDragArms ==
    [][ /\ PressAndSmallMoveInert
        /\ SmallDragRelease =>
              /\ AimedAfter.value = Aimed.value
              /\ AimedAfter.drag = NoDrag
              /\ Stamp(AimedAfter, Aimed.drag.key) = clock
              /\ ~AimedAfter.input.open ]_vars

\* C13, amended: the same, except that the release completes the detector
\* and opens the <input> of the channel when the channel was stamped less
\* than 500 ms before; the record is unchanged in both cases
C13_SmallDragIsClick ==
    [][ /\ PressAndSmallMoveInert
        /\ SmallDragRelease =>
              /\ AimedAfter.value = Aimed.value
              /\ AimedAfter.drag = NoDrag
              /\ Stamp(AimedAfter, OtherKey(Aimed.drag.key))
                     = Stamp(Aimed, OtherKey(Aimed.drag.key))
              /\ IF clock - Stamp(Aimed, Aimed.drag.key) < DoubleClickMs
                 THEN /\ Stamp(AimedAfter, Aimed.drag.key) = 0
                      /\ AimedAfter.input.open
                      /\ AimedAfter.input.key = Aimed.drag.key
                 ELSE /\ Stamp(AimedAfter, Aimed.drag.key) = clock
                      /\ ~AimedAfter.input.open ]_vars

\* a release has ended a press on the second number without a drag and
\* stamped that channel's detector
C13_Witness ==
    /\ last.op = "pointerup"
    /\ last.drag.armed /\ ~last.drag.dragged /\ last.drag.key = "strengthTwo"
    /\ InZone(last.x, NumZone(isDualMode(showStrengths), "strengthTwo"))
    /\ Slots[last.slot].lastStrengthClick2 = clock
    /\ Slots[last.slot].value = RestoredValue(SavedFoo)

\* a move beyond the threshold during a drag session
LargeMove ==
    /\ last'.op = "pointermove"
    /\ Aimed.drag.armed
    /\ \/ last'.x - Aimed.drag.startX > DragThreshold
       \/ Aimed.drag.startX - last'.x > DragThreshold

\* the session started on a limit and the move pushes against it
AgainstLimit ==
    \/ Aimed.drag.startVal = Num(MaxStrength) /\ last'.x > Aimed.drag.startX
    \/ Aimed.drag.startVal = Num(MinStrength) /\ last'.x < Aimed.drag.startX

C15_AddAppends ==
    [][ last'.op = "addLoraSlot"
            => LET n    == Len(SlotWidgets(widgets))
                   p    == LoraPositions(widgets')[n + 1]
                   newW == widgets'[p]
               IN  /\ Len(SlotWidgets(widgets')) = n + 1
                   /\ Len(LoraPositions(widgets')) = n + 1
                   /\ \A k \in 1..n : SlotWidgets(widgets')[k] = SlotWidgets(widgets)[k]
                   /\ RemoveAt(widgets', p) = widgets
                   /\ p + 1 = IndexOfKind(widgets', "add_lora")
                   /\ newW.name = "lora_" /\ newW.idx = n + 1
                   /\ newW.value.typ = "object"
                   /\ newW.value.strength = Num(DefaultStrength)
                   /\ newW.value.strengthTwo =
                         (IF showStrengths = Dual THEN Num(DefaultStrength) ELSE Null)
                   /\ newW.value.lora # NoString
                   /\ newW.value.on = BoolOf(newW.value.lora # None) ]_vars

\* "123:foo" was added from the menu as the second slot of a dual-mode node
C15_Witness ==
    /\ last.op = "addLoraSlot"
    /\ showStrengths = Dual
    /\ Len(SlotWidgets(widgets)) = 2
    /\ SlotWidgets(widgets)[2].value =
           SlotValue(OnTrue, "123:foo", Num(DefaultStrength), Num(DefaultStrength))

\* the filtered catalog has no entry: the cache is absent, or holds no
\* model, or holds none with the base model the filter names
FilteredEmpty ==
    \/ ~loraCache.present
    \/ Len(loraCache.models) = 0
    \/ /\ BaseModelValue(widgets) \notin {"", "All"}
       /\ \A i \in 1..Len(loraCache.models) :
              loraCache.models[i].baseModel # BaseModelValue(widgets)

\* C16: with no entry in the filtered catalog (cache absent, empty, or the
\* base-model filter matching nothing) the Add LoRA button adds exactly one
\* slot, holding lora "None" and on = false, and no widget is otherwise
\* touched
C16_EmptyCatalogAdd ==
    [][ (last'.op = "addLoraSlot" /\ FilteredEmpty)
            => LET n == Len(SlotWidgets(widgets))
                   p == LoraPositions(widgets')[n + 1]
               IN  /\ Len(SlotWidgets(widgets')) = n + 1
                   /\ RemoveAt(widgets', p) = widgets
                   /\ widgets'[p].value =
                         SlotValue(OnFalse, None, Num(DefaultStrength),
                                   IF showStrengths = Dual THEN Num(DefaultStrength)
                                   ELSE Null) ]_vars

\* a blank slot was added while the cache held only an SDXL model and the
\* base_model filter stood at "SD15"
C16_Witness ==
    /\ last.op = "addLoraSlot"
    /\ loraCache = [present |-> TRUE, models |-> <<ModelFoo>>]
    /\ BaseModelValue(widgets) = "SD15"
    /\ Len(SlotWidgets(widgets)) = 2
    /\ SlotWidgets(widgets)[2].value.lora = None
    /\ SlotWidgets(widgets)[2].value.on = OnFalse

\* the number of widgets of a kind
CountKind(ws, kind) == Cardinality({i \in 1..Len(ws) : ws[i].kind = kind})

\* C17: the widget list always holds exactly one Toggle All widget and
\* exactly one Add LoRA button, and the slot widgets are exactly the widgets
\* between the two: one run that starts right after Toggle All and ends
\* right before the button
C17_WellFormed ==
    /\ CountKind(widgets, "toggle_all") = 1
    /\ CountKind(widgets, "add_lora") = 1
    /\ LET t == IndexOfKind(widgets, "toggle_all")
           a == IndexOfKind(widgets, "add_lora")
       IN  /\ t < a
           /\ \A i \in 1..Len(widgets) : IsLoraSlot(widgets[i]) <=> (t < i /\ i < a)

\* a node that configure had rebuilt (its auth button now ahead of Toggle
\* All) was emptied by Remove LoRA: the button directly follows Toggle All
C17_Witness ==
    /\ last.op = "Remove LoRA"
    /\ Len(SlotWidgets(widgets)) = 0
    /\ IndexOfKind(widgets, "auth") < IndexOfKind(widgets, "toggle_all")
    /\ IndexOfKind(widgets, "add_lora") = IndexOfKind(widgets, "toggle_all") + 1

\* the slot widgets of a list with their numbering in the name left out:
\* the records and the per-widget state, in list order
SlotRecords(ws) == [k \in 1..Len(SlotWidgets(ws)) |-> [SlotWidgets(ws)[k] EXCEPT !.idx = 0]]

\* the widgets of a list that are no slots, in list order
OtherWidgets(ws) == SelectSeq(ws, LAMBDA w : ~IsLoraSlot(w))

\* C18: the menu's "Remove LoRA" entry, chosen for slot i of N, leaves the
\* N-1 other slots with their records and their order, in the one step of
\* the callback (nothing asks for confirmation), and touches no other
\* widget; chosen when that slot is no longer in the widget list, it changes
\* nothing
C18_Remove ==
    [][ last'.op = "menu: Remove LoRA"
            => IF menu.live
               THEN /\ Len(SlotWidgets(widgets')) = Len(SlotWidgets(widgets)) - 1
                    /\ SlotRecords(widgets') = RemoveAt(SlotRecords(widgets), menu.slotIdx)
                    /\ OtherWidgets(widgets') = OtherWidgets(widgets)
                    /\ \A k \in 1..Len(SlotWidgets(widgets')) :
                           SlotWidgets(widgets')[k].idx = k
               ELSE widgets' = widgets ]_vars

\* the first of two slots was removed through the menu: the second, with
\* its record, is now the only one
C18_Witness ==
    /\ last.op = "menu: Remove LoRA"
    /\ last.slot = 1
    /\ Len(SlotWidgets(widgets)) = 1
    /\ SlotWidgets(widgets)[1].value.lora = "123:foo"
    /\ showStrengths = Single

\* C18, the stale case: "Remove LoRA" was chosen for slot 3 in a menu opened
\* before configure rebuilt the slots, and all three slots are still there
C18_WitnessStale ==
    /\ last.op = "menu: Remove LoRA"
    /\ last.slot = 3
    /\ Len(SlotWidgets(widgets)) = 3

\* a menu built for slot i of a list of n slots, every widget still in place
LiveMenu(i, n) == [open |-> TRUE, slotIdx |-> i, isOn |-> TRUE, n |-> n, live |-> TRUE]

\* recs with the entries at i and j exchanged
Exchanged(recs, i, j) == [recs EXCEPT ![i] = recs[j], ![j] = recs[i]]

\* C19: "Move LoRA Up" on slot i exchanges the records at i-1 and i, "Move
\* LoRA Down" those at i and i+1; the slot count, every other slot and every
\* other widget stay; the menu of the first slot has no Move Up and that of
\* the last slot no Move Down; Move Up on i followed by Move Down on i-1
\* gives the list back
C19_Move ==
    [][ /\ (last'.op = "menu: Move LoRA Up")
            => /\ menu.slotIdx > 1
               /\ menu.live
                    => /\ SlotRecords(widgets') =
                             Exchanged(SlotRecords(widgets), menu.slotIdx - 1, menu.slotIdx)
                       /\ OtherWidgets(widgets') = OtherWidgets(widgets)
                       /\ C17_WellFormed'
        /\ (last'.op = "menu: Move LoRA Down")
            => /\ menu.slotIdx < menu.n
               /\ menu.live
                    => /\ SlotRecords(widgets') =
                             Exchanged(SlotRecords(widgets), menu.slotIdx, menu.slotIdx + 1)
                       /\ OtherWidgets(widgets') = OtherWidgets(widgets)
                       /\ C17_WellFormed'
        /\ \A i \in 2..NSlots :
              MoveDownCallback(MoveUpCallback(widgets, LiveMenu(i, NSlots)),
                               LiveMenu(i - 1, NSlots)) = widgets ]_vars

\* the third of three slots was moved up: the records of slots 2 and 3
\* changed places and slot 1 kept its own
C19_Witness ==
    /\ last.op = "menu: Move LoRA Up"
    /\ last.slot = 3
    /\ Len(SlotWidgets(widgets)) = 3
    /\ SlotWidgets(widgets)[1].value.lora = "123:foo"
    /\ SlotWidgets(widgets)[2].value.lora = None
    /\ SlotWidgets(widgets)[3].value.lora = "456@7:bar"

\* a slot widget with its on flag set to b
WithOn(w, b) == [w EXCEPT !.value = [@ EXCEPT !.on = b]]

\* where a release edits a strength or opens the overlay: the arrows and
\* the numbers
EditXs(dual) ==
    LET z == Zones(dual)
    IN  XSamples(dual) \ (ZoneEnds(z.toggle) \cup ZoneEnds(z.name))

\* every press, move, release on an arrow or a number, and dblclick does to
\* the slot switched off what it does to the slot switched on, and leaves
\* the flag as it was
PointerIgnoresOn(w, dual) ==
    LET off == WithOn(w, OnFalse)
        on  == WithOn(w, OnTrue)
    IN  /\ \A x \in PressXs(dual) :
              /\ MouseDown(off, dual, x) = WithOn(MouseDown(on, dual, x), OnFalse)
              /\ DblClick(off, dual, x) = WithOn(DblClick(on, dual, x), OnFalse)
        /\ \A x \in MoveXs(w, dual) :
              MouseMove(off, x) = WithOn(MouseMove(on, x), OnFalse)
        /\ \A x \in EditXs(dual) :
              MouseUp(off, dual, clock, x, "") = WithOn(MouseUp(on, dual, clock, x, ""), OnFalse)

\* so does the commit of the overlay
CommitIgnoresOn(w) ==
    \A parsed \in ParsedSamples \cup {w.input.prefill} :
        ApplyInput(WithOn(w, OnFalse), parsed)
            = WithOn(ApplyInput(WithOn(w, OnTrue), parsed), OnFalse)

\* C20: a step that changes the on flag of a slot widget (no step of this
\* specification moves one) and is no choice in the name menu (a click in the toggle zone, a Toggle All click, the menu's
\* Enable/Disable entry) leaves the slot's lora, strength and strengthTwo as
\* they were; and every edit event acts on a slot that is off as on one that
\* is on: the pointer events that can follow a Toggle All click, and the
\* commit of an overlay that is open
C20_DisableKeeps ==
    [][ /\ \A i \in 1..Len(widgets) :
              (/\ IsLoraSlot(widgets[i])
               /\ i <= Len(widgets') /\ IsLoraSlot(widgets'[i])
               /\ widgets'[i].value.on # widgets[i].value.on
               /\ ~(last'.op = "pointerup"
                      /\ InZone(last'.x, Zones(isDualMode(showStrengths)).name)))
              => /\ last'.op \in {"pointerup", "toggle_all", "Toggle LoRA"}
                 /\ widgets'[i].value.lora = widgets[i].value.lora
                 /\ widgets'[i].value.strength = widgets[i].value.strength
                 /\ widgets'[i].value.strengthTwo = widgets[i].value.strengthTwo
        /\ last'.op = "toggle_all"
              => \A i \in 1..Len(widgets') :
                    IsLoraSlot(widgets'[i])
                        => PointerIgnoresOn(widgets'[i], isDualMode(showStrengths))
        /\ last'.op = "input commit"
              => \A i \in 1..Len(widgets) :
                    (IsLoraSlot(widgets[i]) /\ widgets[i].input.open)
                        => CommitIgnoresOn(widgets[i]) ]_vars

\* the slot restored switched on in dual mode is off, and a commit of the
\* overlay has just stored 20 in it: it was switched off, then edited
C20_Witness ==
    /\ last.op = "input commit"
    /\ showStrengths = Dual
    /\ Slots[1].value.on = OnFalse
    /\ Slots[1].value.lora = "123:foo"
    /\ Slots[1].value.strength = Num(MaxStrength)

\* C21: Escape in the open overlay closes it and leaves every slot value as
\* it was, whatever the overlay holds
C21_EscapeDiscards ==
    [][ last'.op = "input escape"
            => \A i \in 1..Len(widgets) :
                  IsLoraSlot(widgets[i])
                      => /\ widgets'[i].value = widgets[i].value
                         /\ ~widgets'[i].input.open ]_vars

\* the bound of [-20, 20] nearest to a number, the number itself inside
Nearest(n) == IF n < MinStrength THEN MinStrength
              ELSE IF n > MaxStrength THEN MaxStrength ELSE n

\* what the claim asks of a commit of the overlay of w that parses to parsed
CommitAsClaimed(w, parsed) ==
    LET r == ApplyInput(w, parsed)
    IN  /\ r.input = NoInput
        /\ [r EXCEPT !.value = w.value, !.input = w.input] = w
        /\ IF IsNum(parsed)
           THEN /\ r.value[w.input.key] = Num(Nearest(parsed.n))
                /\ [r.value EXCEPT ![w.input.key] = w.value[w.input.key]] = w.value
           ELSE r.value = w.value

\* C22: a commit of the overlay (Enter or loss of focus) closes it; text that
\* parses to no number leaves the slot record as it was; a number outside
\* [-20, 20] is stored as the nearer bound in the overlay's channel; no
\* other field changes
C22_CommitBadInput ==
    [][ last'.op = "input commit"
            => \A i \in 1..Len(widgets) :
                  (IsLoraSlot(widgets[i]) /\ widgets[i].input.open)
                      => /\ \E parsed \in ParsedSamples \cup {widgets[i].input.prefill} :
                               widgets'[i] = ApplyInput(widgets[i], parsed)
                         /\ \A parsed \in ParsedSamples \cup {widgets[i].input.prefill} :
                               CommitAsClaimed(widgets[i], parsed) ]_vars

\* -30 was committed in the overlay of the second channel: strengthTwo is
\* -20 and strength is what configure restored
C22_Witness ==
    /\ last.op = "input commit"
    /\ showStrengths = Dual
    /\ Slots[1].value.strengthTwo = Num(MinStrength)
    /\ Slots[1].value.strength = Num(800)
    /\ ~Slots[1].input.open

\* C23: once the node is removed, none of its slots has an open overlay and
\* no commit changes a slot value
C23_RemovalCancels ==
    [][ removed'
            => \A i \in 1..Len(widgets) :
                  IsLoraSlot(widgets[i])
                      => /\ ~widgets'[i].input.open
                         /\ removed => widgets'[i].value = widgets[i].value ]_vars

\* an overlay outlives the removal of its node
C23_OpenAfterRemoval == removed /\ InputOpen

\* the release of this step is a click on the number of channel key
ReleaseOnNumber(key) ==
    /\ last'.op = "pointerup"
    /\ clock' = clock
    /\ ~(Aimed.drag.armed /\ Aimed.drag.dragged)
    /\ key = "strengthTwo" => isDualMode(showStrengths) /\ Zones(TRUE).has2
    /\ InZone(last'.x, NumZone(isDualMode(showStrengths), key))

\* C24: a channel's stamp is the time of the last release on its number that
\* opened nothing (0 after one that opened the overlay). A release on a
\* number less than 500 ms after that time opens the overlay of that channel
\* and resets the stamp; any other release on the number opens nothing and
\* only stamps the channel, so the release after an opening one re-arms, and
\* a release on the other channel's number, which never moves this stamp,
\* counts for nothing. No release on a number changes the slot record
C24_DoubleClick ==
    [][ \A key \in {"strength", "strengthTwo"} :
            ReleaseOnNumber(key) =>
                /\ AimedAfter.value = Aimed.value
                /\ Stamp(AimedAfter, OtherKey(key)) = Stamp(Aimed, OtherKey(key))
                /\ \A i \in 1..Len(widgets) :
                       i # SlotPos(last'.slot) => widgets'[i] = widgets[i]
                /\ IF clock - Stamp(Aimed, key) < DoubleClickMs
                   THEN /\ AimedAfter.input.open
                        /\ AimedAfter.input.key = key
                        /\ Stamp(AimedAfter, key) = 0
                   ELSE /\ AimedAfter.input = Aimed.input
                        /\ Stamp(AimedAfter, key) = clock ]_vars

\* the second of two releases on the second number, both within 500 ms of a
\* release on the first number, has opened the overlay of the second channel
C24_Witness ==
    /\ last.op = "pointerup"
    /\ \E i \in 1..Len(widgets) :
          /\ IsLoraSlot(widgets[i])
          /\ widgets[i].input.open
          /\ widgets[i].input.key = "strengthTwo"
          /\ widgets[i].lastStrengthClick2 = 0
          /\ widgets[i].lastStrengthClick > StartTime
          /\ clock - widgets[i].lastStrengthClick < DoubleClickMs

\* a release on a number 500 ms after the one before it, and after an
\* overlay was opened and closed, has only stamped the channel
C24_WitnessLate ==
    /\ last.op = "pointerup"
    /\ \E i \in 1..Len(widgets) :
          /\ IsLoraSlot(widgets[i])
          /\ ~widgets[i].input.open
          /\ InZone(last.x, Zones(TRUE).strengthNum)
          /\ widgets[i].lastStrengthClick = StartTime + LongGap
          /\ widgets[i].lastStrengthClick2 = 0
          /\ clock = StartTime + LongGap

\* the release of this step is a click
ClickStep ==
    /\ last'.op = "pointerup"
    /\ ~(Aimed.drag.armed /\ Aimed.drag.dragged)

\* slot w after a click that stored x in channel key and did nothing else
Stepped(w, key, x) ==
    [w EXCEPT !.drag = NoDrag, !.value = WithField(w.value, key, x)]

\* C25: a click on a left arrow stores max(-20, v - 0.05), on a right arrow
\* min(20, v + 0.05), rounded to hundredths, in the arrow's channel, v being
\* the channel's value (strength for the second channel when strengthTwo is
\* undefined or null); nothing else changes, and in single mode no click
\* writes strengthTwo
C25_ArrowStep ==
    [][ ClickStep =>
          LET dual == isDualMode(showStrengths)
              z    == Zones(dual)
              x    == last'.x
              pos  == SlotPos(last'.slot)
              w    == widgets[pos]
              v    == w.value
              v2   == IF Nullish(v.strengthTwo) THEN v.strength ELSE v.strengthTwo
              on1  == InZone(x, z.arrowLeft) \/ InZone(x, z.arrowRight)
              on2  == dual /\ z.has2
                        /\ (InZone(x, z.arrowLeft2) \/ InZone(x, z.arrowRight2))
          IN  /\ InZone(x, z.arrowLeft) =>
                    widgets'[pos] = Stepped(w, "strength",
                        Round2(MathMax(MinStrength, Plus(v.strength, 0 - ArrowStep))))
              /\ InZone(x, z.arrowRight) =>
                    widgets'[pos] = Stepped(w, "strength",
                        Round2(MathMin(MaxStrength, Plus(v.strength, ArrowStep))))
              /\ (on2 /\ InZone(x, z.arrowLeft2)) =>
                    widgets'[pos] = Stepped(w, "strengthTwo",
                        Round2(MathMax(MinStrength, Plus(v2, 0 - ArrowStep))))
              /\ (on2 /\ InZone(x, z.arrowRight2)) =>
                    widgets'[pos] = Stepped(w, "strengthTwo",
                        Round2(MathMin(MaxStrength, Plus(v2, ArrowStep))))
              /\ ~dual => widgets'[pos].value.strengthTwo = v.strengthTwo
              /\ (on1 \/ on2) =>
                    \A i \in 1..Len(widgets) : i # pos => widgets'[i] = widgets[i] ]_vars

\* a click on the second channel's left arrow, strengthTwo absent, has taken
\* 0.05 off strength 0.8 and stored it in strengthTwo
C25_Witness ==
    /\ last.op = "pointerup"
    /\ isDualMode(showStrengths)
    /\ InZone(last.x, Zones(TRUE).arrowLeft2)
    /\ Slots[last.slot].value.strength = Num(800)
    /\ Slots[last.slot].value.strengthTwo = Num(750)

\* a click on the right arrow at 19.99 has stopped at 20
C25_WitnessLimit ==
    /\ last.op = "pointerup"
    /\ ~isDualMode(showStrengths)
    /\ InZone(last.x, Zones(FALSE).arrowRight)
    /\ Slots[last.slot].value.strength = Num(MaxStrength)
    /\ edits = 1

\* C26: a move of an armed drag more than the threshold away from the press
\* point stores round2(clamp(startVal + dx * 0.01, -20, 20)) in the dragged
\* channel, startVal being the value the press recorded and dx the distance
\* of this move from the press point; whatever earlier moves stored plays no
\* part, and nothing else of the slot or of any other widget changes
C26_DragValue ==
    [][ last'.op = "pointermove" =>
          LET pos == SlotPos(last'.slot)
              w   == widgets[pos]
              dx  == last'.x - w.drag.startX
              raw == Plus(w.drag.startVal, dx * DragScale)
              cl  == IF ~IsNum(raw) THEN NaN
                     ELSE IF raw.n < MinStrength THEN Num(MinStrength)
                     ELSE IF raw.n > MaxStrength THEN Num(MaxStrength)
                     ELSE raw
          IN  (w.drag.armed /\ (dx > DragThreshold \/ 0 - dx > DragThreshold)) =>
                 /\ widgets'[pos] = [w EXCEPT !.drag.dragged = TRUE,
                                              !.value = WithField(w.value, w.drag.key,
                                                                  Round2(cl))]
                 /\ \A i \in 1..Len(widgets) : i # pos => widgets'[i] = widgets[i]
      ]_vars

\* a second move of one drag: the slot holds what the first move stored,
\* which is not what the press recorded, and the drag passes to another value
C26_Witness ==
    /\ last.op = "pointermove"
    /\ edits = 2
    /\ Slots[last.slot].drag.armed
    /\ Slots[last.slot].drag.dragged
    /\ Slots[last.slot].drag.key = "strengthTwo"
    /\ Slots[last.slot].drag.startVal = Num(800)
    /\ Slots[last.slot].value.strengthTwo = Num(MaxStrength)
    /\ Slots[last.slot].value.strength = Num(800)

\* C27: a click on the name of a slot opens its menu; the entry chosen there
\* becomes the slot's lora and on becomes (entry is not None), whatever on
\* was; strength, strengthTwo, the rest of the widget and every other widget
\* are as before (a dismissed menu changes nothing)
C27_Select ==
    [][ (last'.op = "pointerup" /\ clock' = clock
            /\ InZone(last'.x, Zones(isDualMode(showStrengths)).name)) =>
          LET pos    == SlotPos(last'.slot)
              w      == [widgets[pos] EXCEPT !.drag = NoDrag]
              choice == widgets'[pos].value.lora
          IN  ~(widgets[pos].drag.armed /\ widgets[pos].drag.dragged) =>
                /\ \/ widgets'[pos] = w
                   \/ /\ choice \in MenuValues(getFilteredLoraModels(widgets, loraCache))
                      /\ widgets'[pos] =
                           [w EXCEPT !.value =
                                SlotValue(IF choice = None THEN OnFalse ELSE OnTrue,
                                          choice, w.value.strength,
                                          w.value.strengthTwo)]
                /\ \A i \in 1..Len(widgets) : i # pos => widgets'[i] = widgets[i]
      ]_vars

\* None was chosen for one of two slots: it is off, the other slot is on
\* with its model
C27_Witness ==
    /\ last.op = "pointerup"
    /\ InZone(last.x, Zones(isDualMode(showStrengths)).name)
    /\ NSlots = 2
    /\ Slots[last.slot].value.lora = None
    /\ Slots[last.slot].value.on = OnFalse
    /\ Slots[3 - last.slot].value.on = OnTrue
    /\ Slots[3 - last.slot].value.lora # None

\* a model was chosen for a slot that is on, next to a slot switched off
C27_WitnessModel ==
    /\ last.op = "pointerup"
    /\ InZone(last.x, Zones(isDualMode(showStrengths)).name)
    /\ NSlots = 2
    /\ Slots[last.slot].value.lora = "456@7:bar"
    /\ Slots[last.slot].value.on = OnTrue
    /\ Slots[last.slot].value.strength = Num(800)
    /\ Slots[3 - last.slot].value.on = OnFalse

\* C28: when a slot has been added, the menu's Remove LoRA has run or the
\* node has been configured, the node's height is the height computed for
\* the widgets it has now, whatever its height was before
C28_HeightFits ==
    [][ last'.op \in {"addLoraSlot", "menu: Remove LoRA", "configure"}
            => height' = Len(widgets') * NODE_WIDGET_HEIGHT ]_vars

\* Remove LoRA has run on a node the user had made taller: a slot is gone
\* and the height is that of the widgets left
C28_Witness ==
    /\ last.op = "menu: Remove LoRA"
    /\ NSlots = 0
    /\ height = Len(widgets) * NODE_WIDGET_HEIGHT

\* the zones of a layout, left to right
ZoneList(z) ==
    <<z.toggle, z.name, z.arrowLeft, z.strengthNum, z.arrowRight>>
        \o (IF z.has2 THEN <<z.arrowLeft2, z.strengthNum2, z.arrowRight2>> ELSE <<>>)

\* no zone has a negative width and no two zones share a pixel
Disjoint(zs) ==
    /\ \A i \in 1..Len(zs) : zs[i].w >= 0
    /\ \A i, j \in 1..Len(zs) :
          i < j => \/ zs[i].x + zs[i].w <= zs[j].x
                   \/ zs[j].x + zs[j].w <= zs[i].x

\* one strength group in single mode, two in dual mode with ColumnGap pixels
\* between them, and the same toggle zone in both modes
Groups(l) ==
    /\ l.zones.has2 = l.dual
    /\ l.dual => l.zones.arrowLeft2.x
                    = l.zones.arrowRight.x + l.zones.arrowRight.w + ColumnGap
    /\ loraZones(l.width, TRUE).toggle = loraZones(l.width, FALSE).toggle

\* C29: at every width and in both modes the zones loraZones returns have
\* non-negative widths and pairwise disjoint x-ranges; there is one strength
\* group in single mode and two, 2 pixels apart, in dual mode; the toggle
\* zone is the same in both modes
C29_ZonesDisjoint == Disjoint(ZoneList(layout.zones)) /\ Groups(layout)

\* the narrowest node whose zones all fit: the toggle, the gaps, and one or
\* two strength groups
FitWidth(dual) ==
    LET group == ARROW_W + STRENGTH_NUM_W + ARROW_W
    IN  MARGIN + SWITCH_PAD + SWITCH_W + NameGap + NameEndGap + group
            + (IF dual THEN ColumnGap + group ELSE 0) + MARGIN

\* from that width on the zones are as C29 says, and at every width the
\* groups are
C29_FromFitWidth ==
    /\ Groups(layout)
    /\ layout.width >= FitWidth(layout.dual) => Disjoint(ZoneList(layout.zones))

\* a dual layout one pixel too narrow: the name zone has width -1
C29_TooNarrow ==
    /\ layout.dual
    /\ layout.width = FitWidth(TRUE) - 1
    /\ layout.zones.name.w = -1

\* C30 as stated: modelCache changes in no step but the one where
\* refreshModels stores what it fetched
C30_OnlyFetchWrites ==
    [][ loraCache' # loraCache => last'.op = "refresh fetched" ]_vars

\* C30: modelCache changes only where refreshModels stores what it fetched
\* and where doDisconnect deletes every entry; adding or removing a slot,
\* changing the mode or the base model, connecting and starting a refresh
\* leave it as it is
C30_FetchOrDisconnect ==
    [][ loraCache' # loraCache
            => \/ last'.op = "refresh fetched" /\ loraCache'.present
               \/ last'.op = "disconnect" /\ loraCache' = NoCache ]_vars

\* a disconnect has emptied the cache from which a slot's model was chosen
C30_Witness ==
    /\ last.op = "disconnect"
    /\ ~loraCache.present
    /\ refreshPc = "idle"
    /\ NSlots = 2
    /\ Slots[2].value.lora = "456@7:bar"

\* C31: while the program is disconnected the catalog cache is empty: no
\* refresh started before the disconnect fills it again
C31_DisconnectEmpties == ~connected => ~loraCache.present

\* the answer of a refresh started while connected has arrived after the
\* disconnect and sits in the cache
C31_RefilledAfterDisconnect ==
    /\ ~connected
    /\ loraCache.present
    /\ last.op = "refresh fetched"

\* a slot value that is a full record: an object with a lora string, a
\* boolean on and a numeric strength
FullRecord(v) ==
    /\ v.typ = "object"
    /\ v.lora # NoString
    /\ v.on \in {OnTrue, OnFalse}
    /\ IsNum(v.strength)

\* C32: when the upgrade timer has fired, every slot value is a full record,
\* whatever the user did to the slots while the timer was pending
C32_UpgradeRepairs ==
    [][ (upgradeTimer /\ ~upgradeTimer')
            => \A i \in 1..Len(widgets') :
                  IsLoraSlot(widgets'[i]) => FullRecord(widgets'[i].value) ]_vars

\* the timer has fired on a slot whose bare string a toggle had spread into
\* an object: it has neither lora nor strength
C32_LeftDegraded ==
    /\ last.op = "upgrade"
    /\ \E i \in 1..Len(widgets) :
          /\ IsLoraSlot(widgets[i])
          /\ widgets[i].value.typ = "object"
          /\ widgets[i].value.lora = NoString
          /\ widgets[i].value.strength = Undefined

\* C33: after configure(info) the slots (count, order, records) and the mode
\* are those that info alone gives, whatever slots and mode the node had,
\* also when info has no showStrengths; and configure(info) applied again
\* changes nothing
C33_RestoreFromPayload ==
    [][ last'.op = "configure"
            \* what info gives on a node just created
            => /\ showStrengths' = configureMode(Single, last'.info)
               /\ SlotWidgets(widgets')
                     = SlotWidgets(configureWidgets(NewNodeWidgets(connected), last'.info))
               /\ configureWidgets(widgets', last'.info) = widgets'
               /\ configureMode(showStrengths', last'.info) = showStrengths' ]_vars

\* a payload without showStrengths has been restored into a node that was in
\* dual mode: the node still is
C33_ModeKept ==
    /\ last.op = "configure"
    /\ last.info.showStrengths = ""
    /\ showStrengths = Dual

\* the slots after configure(info) are those info gives on a node just
\* created, the mode is info's when info has one, and configure(info) applied
\* again changes nothing
C33_SlotsFromPayload ==
    [][ last'.op = "configure"
            => /\ last'.info.showStrengths # "" => showStrengths' = last'.info.showStrengths
               /\ SlotWidgets(widgets')
                     = SlotWidgets(configureWidgets(NewNodeWidgets(connected), last'.info))
               /\ configureWidgets(widgets', last'.info) = widgets'
               /\ configureMode(showStrengths', last'.info) = showStrengths' ]_vars

\* C34: in every state every slot's strength, and its strengthTwo when it has
\* one, lies in [-20, 20] (slots whose value holds no number there, as a
\* bare string before its upgrade, aside)
C34_BoundsEverywhere ==
    \A i \in 1..Len(widgets) :
        IsLoraSlot(widgets[i]) =>
            /\ IsNum(widgets[i].value.strength) => InRange(widgets[i].value.strength)
            /\ IsNum(widgets[i].value.strengthTwo) => InRange(widgets[i].value.strengthTwo)

\* configure has restored a saved strength of 25 as it is
C34_RestoredOutOfRange ==
    /\ last.op = "configure"
    /\ \E i \in 1..Len(widgets) :
          IsLoraSlot(widgets[i]) /\ widgets[i].value.strength = Num(25000)

====
